---- MODULE Spec2Model ----
(***************************************************************************)
(* A model of the tiny-backspace coding agent (src/agent.py, src/main.py): *)
(* the text-edit primitive _apply_single_edit, the application of a plan   *)
(* of edits, and the event stream that run_agent / process_repository      *)
(* produce for one request, the frames the POST /code endpoint sends for   *)
(* them, and the validator _run_code_validation, which no run calls.        *)
(*                                                                         *)
(* Text is modelled as a sequence of symbols.  "LF" and "CR" are the line  *)
(* feed and carriage return; "XX" is a byte that is not valid UTF-8 (it     *)
(* occurs only in files on disk); "SUR" is a lone surrogate code point (it  *)
(* occurs only in strings decoded from the planner's JSON, and cannot be    *)
(* encoded as UTF-8).                                                       *)
(***************************************************************************)
EXTENDS Integers, Sequences, FiniteSets, TLC

VARIABLES
    pc,              \* position of the run (or of the single-edit harness)
    env,             \* GITHUB_TOKEN / ANTHROPIC_API_KEY set or not, shape of repo_url,
                     \* whether the token may write to the repository
    prompt,          \* the request's prompt, reduced to the phrases the code looks for
    workspace,       \* the temporary directory: "none", "live" or "deleted"
    fs,              \* files on disk: location -> [exists, bytes]
    git,             \* the clone's commit, the commit made by the run, push and PR
    changes,         \* the plan being applied: a sequence of edits
    idx,             \* loop counter of the loop the run is in
    pre,             \* the files as they were before the most recent edit
    last_edit,       \* the most recent edit handed to _apply_single_edit
    events,          \* the events the consumer of run_agent has received, in order
    now,             \* the clock (seconds)
    last_heartbeat,  \* maybe_heartbeat's nonlocal last_heartbeat
    calls,           \* how many times each collaborator was invoked in this run
    outcomes,        \* what each edit handed to _apply_single_edit did, in order
    validation_results,  \* the result of the last _run_code_validation pass
    hb_check,        \* the generator is at a "for hb in maybe_heartbeat()" loop
    suspended,       \* the generator is suspended at a yield: the consumer has the event
    last_event_at,   \* the clock when the most recent event was yielded
    frames,          \* the frames the POST /code endpoint has sent, in order
    requests,        \* concurrent POST /code requests: id -> what each has done
    disk,            \* the host's temporary directories: name -> "absent" or a.py's text
    remote,          \* branches pushed to the hosting service: [repo, branch, by]
    test_results     \* test_endpoint's results dict

vars == <<pc, env, prompt, workspace, fs, git, changes, idx, pre, last_edit,
          events, now, last_heartbeat, calls, outcomes, validation_results,
          hb_check, suspended, last_event_at, frames, requests, disk, remote,
          test_results>>

(***************************************************************************)
(* Bounds of the model.                                                     *)
(***************************************************************************)
MaxLen == 3       \* longest file content enumerated for a single edit
MaxPlan == 2      \* longest plan the planner returns
MaxTime == 3      \* the clock stops advancing here

(***************************************************************************)
(* Text.                                                                    *)
(***************************************************************************)
Bytes == {"a", "b", "LF", "CR", "XX"}

SeqsUpTo(S, n) == UNION {[1..k -> S] : k \in 0..n}

Contains(s, x) == \E i \in 1..Len(s) : s[i] = x

\* str.find(old): the lowest 1-based index at which old occurs in s, 0 if none.
\* The empty string occurs at index 1 of every string.
Find(s, old) ==
    LET hits == {i \in 1..(Len(s) - Len(old) + 1) :
                     SubSeq(s, i, i + Len(old) - 1) = old}
    IN  IF hits = {} THEN 0 ELSE CHOOSE i \in hits : \A j \in hits : i <= j

Occurs(s, old) == Find(s, old) # 0

\* str.replace(old, new, 1): the leftmost occurrence is replaced; with old
\* empty the leftmost occurrence is the empty string at the very start.
ReplaceFirst(s, old, new) ==
    LET i == Find(s, old)
    IN  IF i = 0 THEN s
        ELSE SubSeq(s, 1, i - 1) \o new \o SubSeq(s, i + Len(old), Len(s))

\* open(path, 'r', encoding='utf-8').read(): strict UTF-8 decoding, then
\* universal newlines (newline=None): CR LF and a lone CR both read as LF.
Decodable(bytes) == ~Contains(bytes, "XX")

RECURSIVE Decode(_)
Decode(bytes) ==
    IF bytes = <<>> THEN <<>>
    ELSE IF bytes[1] = "CR"
         THEN IF Len(bytes) >= 2 /\ bytes[2] = "LF"
              THEN <<"LF">> \o Decode(SubSeq(bytes, 3, Len(bytes)))
              ELSE <<"LF">> \o Decode(Tail(bytes))
         ELSE <<bytes[1]>> \o Decode(Tail(bytes))

\* open(path, 'w', encoding='utf-8').write(text): LF is written as os.linesep,
\* which is LF on the Linux image the service runs on; a lone surrogate cannot
\* be encoded and makes write() raise before any byte is written.
Encodable(text) == ~Contains(text, "SUR")

Encode(text) == text

(***************************************************************************)
(* Files.  os.path.join(repo_path, name) keeps ".." components and lets an  *)
(* absolute name replace repo_path, so a name is also the location it       *)
(* resolves to.                                                             *)
(***************************************************************************)
InsideNames == {"a.py", "b.py"}
OutsideNames == {"../out.txt", "/abs/out.txt"}
Locations == InsideNames \cup OutsideNames

NoFile == [exists |-> FALSE, bytes |-> <<>>]
File(bytes) == [exists |-> TRUE, bytes |-> bytes]

Join(name) == name

Escapes(name) == name \in OutsideNames

\* An edit is the JSON object the planner produced: keys holds the keys the
\* object has; a field whose key is absent is never read by the model.
Edit(file, old_str, new_str) ==
    [file |-> file, old_str |-> old_str, new_str |-> new_str,
     keys |-> {"file", "old_str", "new_str"}]

Without(edit_info, key) == [edit_info EXCEPT !.keys = @ \ {key}]

NoEdit == [file |-> "a.py", old_str |-> <<>>, new_str |-> <<>>, keys |-> {}]

\* _apply_single_edit's three statements when none of them raises.
EditedFiles(files, edit_info) ==
    LET file_path == Join(edit_info.file)
        content == Decode(files[file_path].bytes)
        new_content == ReplaceFirst(content, edit_info.old_str, edit_info.new_str)
    IN  [files EXCEPT ![file_path] = File(Encode(new_content))]

\* _apply_single_edit.  edit_info["file"] is read outside the try block (a
\* missing key raises to the caller, see ApplyRaises); everything else is
\* inside it, and any exception is logged and swallowed:
\*   - open(.,'r') of a missing file raises, nothing was written;
\*   - read() of bytes that are not UTF-8 raises, nothing was written;
\*   - a missing old_str / new_str key raises after the read, nothing written;
\*   - open(.,'w') truncates the file, and write() of text that cannot be
\*     encoded raises, which leaves the file empty.
ApplySingleEdit(files, edit_info) ==
    LET file_path == Join(edit_info.file)
    IN  IF ~files[file_path].exists THEN files
        ELSE IF ~Decodable(files[file_path].bytes) THEN files
        ELSE IF ~({"old_str", "new_str"} \subseteq edit_info.keys) THEN files
        ELSE IF ~Encodable(ReplaceFirst(Decode(files[file_path].bytes),
                                        edit_info.old_str, edit_info.new_str))
             THEN [files EXCEPT ![file_path] = File(<<>>)]
        ELSE EditedFiles(files, edit_info)

ApplyRaises(edit_info) == "file" \notin edit_info.keys

\* Which of _apply_single_edit's paths an edit takes on the given files, and
\* whether the bytes on disk differ afterwards.
EditPath(files, edit_info) ==
    LET file_path == Join(edit_info.file)
    IN  IF ~files[file_path].exists THEN "no_file"
        ELSE IF ~Decodable(files[file_path].bytes) THEN "undecodable"
        ELSE IF ~({"old_str", "new_str"} \subseteq edit_info.keys) THEN "key_error"
        ELSE IF ~Occurs(Decode(files[file_path].bytes), edit_info.old_str)
             THEN "not_found"
        ELSE IF ~Encodable(ReplaceFirst(Decode(files[file_path].bytes),
                                        edit_info.old_str, edit_info.new_str))
             THEN "truncated"
        ELSE "replaced"

\* How many times _apply_single_edit opens the file for writing: the second
\* `with open(file_path, 'w')` is reached whenever the read and the replace did
\* not raise, whatever the replace found.
FileWrites(files, edit_info) ==
    IF EditPath(files, edit_info) \in {"not_found", "truncated", "replaced"}
    THEN 1 ELSE 0

EditOutcome(files, edit_info) ==
    [path |-> EditPath(files, edit_info),
     changed |-> ApplySingleEdit(files, edit_info) # files,
     writes |-> FileWrites(files, edit_info)]

NotRun == [ran |-> FALSE, success |-> FALSE,
           syntax_errors |-> <<>>, compilation_errors |-> <<>>]

(***************************************************************************)
(* Reading the repository and building the fallback plan.                   *)
(***************************************************************************)
\* os.walk order of the .py files of the workspace.
PyOrder == <<"a.py", "b.py">>

\* _get_repo_structure: the .py files that exist, as relative paths.
GetRepoStructure(files) == SelectSeq(PyOrder, LAMBDA n : files[n].exists)

\* _read_file: the decoded text, or the text of the error message.
ReadFile(files, filename) ==
    IF files[filename].exists /\ Decodable(files[filename].bytes)
    THEN Decode(files[filename].bytes)
    ELSE <<"Error reading file">>

\* files_content as process_repository builds it, in file_list order.
FilesContent(files) ==
    LET file_list == GetRepoStructure(files)
    IN  [i \in 1..Len(file_list) |->
            [name |-> file_list[i], content |-> ReadFile(files, file_list[i])]]

\* content.split('\n'): never empty; the text after the last LF is the last line.
RECURSIVE SplitLines(_)
SplitLines(text) ==
    LET i == Find(text, <<"LF">>)
    IN  IF i = 0 THEN <<text>>
        ELSE <<SubSeq(text, 1, i - 1)>> \o SplitLines(SubSeq(text, i + 1, Len(text)))

\* '\n'.join(lines)
RECURSIVE JoinLines(_)
JoinLines(lines) ==
    IF Len(lines) = 0 THEN <<>>
    ELSE IF Len(lines) = 1 THEN lines[1]
    ELSE lines[1] \o <<"LF">> \o JoinLines(Tail(lines))

\* line.strip() == ''
IsBlank(line) == \A k \in 1..Len(line) : line[k] \in {"LF", "CR", " "}

\* The generated text: it starts with two LF and ends with one.
NewCode(kind) == <<"LF", "LF", kind, "LF">>

\* '\n'.join(lines[-2:]) if len(lines) >= 2 else lines[-1]
LastTwo(lines) ==
    IF Len(lines) >= 2 THEN JoinLines(SubSeq(lines, Len(lines) - 1, Len(lines)))
    ELSE lines[Len(lines)]

\* The edit _create_fallback_edits builds for one file.
FallbackEdit(filename, content, p) ==
    LET lines == SplitLines(content)
        last == lines[Len(lines)]
    IN  IF p.function
        THEN IF IsBlank(last)
             THEN Edit(filename, LastTwo(lines),
                       NewCode("def") \o <<"LF">> \o LastTwo(lines))
             ELSE Edit(filename, last, last \o NewCode("def"))
        ELSE IF p.class
        THEN Edit(filename, last, last \o NewCode("class"))
        ELSE Edit(filename, last, last \o NewCode("def"))

\* A fallback that edits one file whatever the prompt says.
FilesToModifyOne(p) == 1

FilesToModify(p) == IF p.two_files THEN 2 ELSE IF p.three_files THEN 3 ELSE 1

\* _create_fallback_edits
CreateFallbackEdits(files_content, p) ==
    LET n == IF FilesToModify(p) < Len(files_content)
             THEN FilesToModify(p) ELSE Len(files_content)
    IN  [i \in 1..n |->
            FallbackEdit(files_content[i].name, files_content[i].content, p)]

(***************************************************************************)
(* One edit applied to one workspace: the inputs are enumerated, the edit   *)
(* is applied once.                                                         *)
(***************************************************************************)
Idle == [planner |-> 0, planner_errors |-> 0, validation |-> 0, fix |-> 0]

NoGit == [head |-> [n \in InsideNames |-> NoFile],
          commit |-> [n \in InsideNames |-> NoFile],
          committed |-> FALSE, pushed |-> FALSE, pr |-> FALSE]

\* test_endpoint: results as it is initialised (events_received, pr_url and
\* error are kept; health_check, sse_connection and duration are reported only).
NoResults == [success |-> FALSE, health_check |-> FALSE, sse_connection |-> FALSE,
              events_received |-> 0, pr_url |-> "None", error |-> "None"]

\* No POST /code request besides the one the run belongs to, no temporary
\* directory besides its workspace, nothing pushed by anybody else.
NoRequests == <<>>

NoDisk == <<>>

NoPrompt == [two_files |-> FALSE, three_files |-> FALSE,
             function |-> FALSE, class |-> FALSE]

\* Contents of the file the enumerated edit is aimed at.
EditContents == {NoFile} \cup {File(b) : b \in SeqsUpTo(Bytes, MaxLen)}

\* Strings the enumerated edit is built from.
EditStrings == {<<>>, <<"a">>, <<"b">>, <<"a", "b">>, <<"b", "a">>, <<"LF">>,
                <<"b", "LF">>, <<"CR", "LF">>}

EditTargets == {"a.py", "../out.txt", "/abs/out.txt"}

EditInputs ==
    {Edit(f, o, n) : f \in EditTargets, o \in EditStrings, n \in EditStrings}
    \cup {Without(Edit("a.py", <<"a">>, <<"b">>), k) : k \in {"file", "old_str",
                                 "new_str"}}

EditFiles(target) ==
    [n \in Locations |-> IF n = "a.py" THEN target
                         ELSE IF n = "b.py" THEN File(<<"a", "b">>)
                         ELSE File(<<"a">>)]

InitEdit ==
    /\ pc = "edit_ready"
    /\ env = [github_token |-> TRUE, anthropic_key |-> TRUE, url_ok |-> TRUE,
              write_access |-> TRUE]
    /\ prompt = NoPrompt
    /\ workspace = "live"
    /\ \E target \in EditContents : fs = EditFiles(target)
    /\ git = NoGit
    /\ changes = <<>>
    /\ idx = 0
    /\ pre = fs
    /\ last_edit \in EditInputs
    /\ events = <<>>
    /\ now = 0
    /\ last_heartbeat = 0
    /\ calls = Idle
    /\ outcomes = <<>>
    /\ validation_results = NotRun
    /\ hb_check = FALSE
    /\ suspended = FALSE
    /\ last_event_at = 0
    /\ frames = <<>>
    /\ requests = NoRequests
    /\ disk = NoDisk
    /\ remote = {}
    /\ test_results = NoResults

\* self._apply_single_edit(temp_dir, edit) returning normally.
SingleEdit ==
    /\ pc = "edit_ready"
    /\ ~ApplyRaises(last_edit)
    /\ fs' = ApplySingleEdit(fs, last_edit)
    /\ outcomes' = Append(outcomes, EditOutcome(fs, last_edit))
    /\ pc' = "edit_done"
    /\ UNCHANGED <<requests, disk, remote, test_results,
                   env, prompt, workspace, git, changes, idx, pre, last_edit,
                   events, last_event_at, frames, now, last_heartbeat, calls,
                   validation_results, hb_check, suspended>>

\* self._apply_single_edit(temp_dir, edit) raising KeyError('file').
SingleEditRaises ==
    /\ pc = "edit_ready"
    /\ ApplyRaises(last_edit)
    /\ pc' = "edit_raised"
    /\ UNCHANGED <<requests, disk, remote, test_results,
                   env, prompt, workspace, fs, git, changes, idx, pre, last_edit,
                   events, last_event_at, frames, now, last_heartbeat, calls, outcomes,
                   validation_results, hb_check, suspended>>

\* self._apply_single_edit(temp_dir, edit) called a second time with the same
\* edit, on the files the first call left.
SingleEditAgain ==
    /\ pc = "edit_done"
    /\ pre' = fs
    /\ fs' = ApplySingleEdit(fs, last_edit)
    /\ outcomes' = Append(outcomes, EditOutcome(fs, last_edit))
    /\ pc' = "edit_again"
    /\ UNCHANGED <<requests, disk, remote, test_results,
                   env, prompt, workspace, git, changes, idx, last_edit,
                   events, last_event_at, frames, now, last_heartbeat, calls,
                   validation_results, hb_check, suspended>>

NextEdit == SingleEdit \/ SingleEditRaises \/ SingleEditAgain

SpecEdit == InitEdit /\ [][NextEdit]_vars

(***************************************************************************)
(* One request: run_agent driving process_repository.  An action is the     *)
(* code from one suspension point of the generator to the next.            *)
(***************************************************************************)
heartbeat_interval == 2

Ev(type, info) == [type |-> type, info |-> info]

Terminal == {"error", "complete"}

\* json.dumps(event): the keys and values of the dict, in order.
JsonDumps(event) == <<"type", event.type, "message", event.info>>

\* f"data: {json.dumps(event)}\n\n"
Sse(event) == <<"data: ", JsonDumps(event), "\n\n">>

\* A run_agent that keeps heartbeat events to itself.
ForwardUnlessHeartbeat(event) ==
    frames' = IF event.type = "heartbeat" THEN frames
              ELSE Append(frames, Sse(event))

\* run_agent formats the event and yields the string; format_like_test_endpoint
\* yields it on unchanged.
Forward(event) == frames' = Append(frames, Sse(event))

\* maybe_heartbeat(): one event when more than heartbeat_interval seconds have
\* passed since last_heartbeat was set.
HeartbeatDue == now - last_heartbeat > heartbeat_interval

MaybeHeartbeat(evs) ==
    IF HeartbeatDue THEN Append(evs, Ev("heartbeat", "Still working...")) ELSE evs

\* "yield event", followed in the code by "for hb in maybe_heartbeat(): yield hb".
YieldThenHeartbeat(event) ==
    /\ events' = Append(events, event)
    /\ last_event_at' = now
    /\ Forward(event)
    /\ suspended' = TRUE
    /\ hb_check' = TRUE
    /\ UNCHANGED last_heartbeat

\* "yield event" alone.
Yield(event) ==
    /\ events' = Append(events, event)
    /\ last_event_at' = now
    /\ Forward(event)
    /\ suspended' = TRUE
    /\ UNCHANGED <<last_heartbeat, hb_check>>

AfterExceptFallsThrough == "pr_message"

\* The generator ends right after the error event, the directory left behind
\* (a directory made with mkdtemp and removed only at the end of the try body).
AfterExceptLeavesDirectory == "closed"

\* Where control goes once an except block of process_repository has yielded
\* its error event: out of the try statements, to the end of the with block.
AfterExcept == "exit_with"

\* except Exception (inner try): yield the error event.
InnerExcept ==
    /\ Yield(Ev("error", "Workflow failed"))
    /\ pc' = AfterExcept

\* An outer handler that reports the error and lets the run go on.
OuterExceptGoesOn ==
    /\ Yield(Ev("error", "Error processing repository"))
    /\ pc' = "cloned"

\* except Exception (outer try): yield the error event.
OuterExcept ==
    /\ Yield(Ev("error", "Error processing repository"))
    /\ pc' = AfterExcept

Inside(files) == [n \in InsideNames |-> files[n]]

\* The requests and the environments a run is started with.
Envs == {[github_token |-> g, anthropic_key |-> a, url_ok |-> u, write_access |-> w] :
            g \in BOOLEAN, a \in BOOLEAN, u \in BOOLEAN, w \in BOOLEAN}

Prompts == {[NoPrompt EXCEPT !.function = TRUE, !.two_files = TRUE]}

\* The commits a clone may bring into the workspace.
Repos == {[n \in InsideNames |-> NoFile],
          [n \in InsideNames |-> IF n = "a.py" THEN File(<<"a", "LF">>) ELSE NoFile],
          [n \in InsideNames |-> IF n = "a.py" THEN File(<<"a", "CR", "LF">>)
                                 ELSE File(<<"b">>)],
          [n \in InsideNames |-> IF n = "a.py" THEN File(<<"XX">>)
                                 ELSE File(<<"a">>)]}

\* The edits the planner may put in a plan.
PlanEdits == {Edit("a.py", <<"a">>, <<"b", "CR">>),
              Edit("a.py", <<"b">>, <<"a">>),
              Edit("a.py", <<"CR">>, <<"a">>),
              Edit("b.py", <<"a">>, <<"b">>),
              Edit("../out.txt", <<"a">>, <<"b">>),
              Without(Edit("a.py", <<"a">>, <<"b">>), "old_str")}

Plans == UNION {[1..k -> PlanEdits] : k \in 1..MaxPlan}

HostFiles == [n \in Locations |-> IF n \in InsideNames THEN NoFile ELSE File(<<"a">>)]

Init ==
    /\ pc = "request"
    /\ env \in Envs
    /\ prompt \in Prompts
    /\ workspace = "none"
    /\ fs = HostFiles
    /\ git = NoGit
    /\ changes = <<>>
    /\ idx = 0
    /\ pre = fs
    /\ last_edit = NoEdit
    /\ events = <<>>
    /\ now = 0
    /\ last_heartbeat = 0
    /\ calls = Idle
    /\ outcomes = <<>>
    /\ validation_results = NotRun
    /\ hb_check = FALSE
    /\ suspended = FALSE
    /\ last_event_at = 0
    /\ frames = <<>>
    /\ requests = NoRequests
    /\ disk = NoDisk
    /\ remote = {}
    /\ test_results = NoResults

\* time.time() moves on.
Tick ==
    /\ now < MaxTime
    /\ pc \notin {"closed", "cancelled"}
    /\ now' = now + 1
    /\ UNCHANGED <<requests, disk, remote, test_results,
                   pc, env, prompt, workspace, fs, git, changes, idx, pre, last_edit,
                   events, last_event_at, frames, last_heartbeat, calls, outcomes,
                   validation_results, hb_check, suspended>>

\* for hb in maybe_heartbeat(): yield hb
HeartbeatCheck ==
    /\ hb_check
    /\ events' = MaybeHeartbeat(events)
    /\ last_event_at' = IF HeartbeatDue THEN now ELSE last_event_at
    /\ IF HeartbeatDue THEN Forward(Ev("heartbeat", "Still working..."))
                       ELSE UNCHANGED frames
    /\ last_heartbeat' = IF HeartbeatDue THEN now ELSE last_heartbeat
    /\ hb_check' = FALSE
    /\ suspended' = HeartbeatDue
    /\ UNCHANGED <<requests, disk, remote, test_results,
                   pc, env, prompt, workspace, fs, git, changes, idx, pre, last_edit,
                   now, calls, outcomes, validation_results>>

\* format_like_test_endpoint: the two frames sent before run_agent is started.
EndpointYieldStarting ==
    /\ pc = "request"
    /\ frames' = Append(frames, Sse(Ev("AI Message", "Starting agent for repository")))
    /\ pc' = "request_task"
    /\ UNCHANGED <<requests, disk, remote, test_results,
                   env, prompt, workspace, fs, git, changes, idx, pre, last_edit,
                   events, last_event_at, now, last_heartbeat, calls, outcomes,
                   validation_results, hb_check, suspended>>

EndpointYieldTask ==
    /\ pc = "request_task"
    /\ frames' = Append(frames, Sse(Ev("AI Message", "Task")))
    /\ pc' = "start"
    /\ UNCHANGED <<requests, disk, remote, test_results,
                   env, prompt, workspace, fs, git, changes, idx, pre, last_edit,
                   events, last_event_at, now, last_heartbeat, calls, outcomes,
                   validation_results, hb_check, suspended>>

\* run_agent: GITHUB_TOKEN is not set.
RunAgentNoGithubToken ==
    /\ pc = "start"
    /\ ~hb_check
    /\ ~env.github_token
    /\ Yield(Ev("error", "GitHub token not configured"))
    /\ pc' = "closed"
    /\ UNCHANGED <<requests, disk, remote, test_results,
                   env, prompt, workspace, fs, git, changes, idx, pre, last_edit,
                   now, calls, outcomes, validation_results>>

\* A run_agent without the check of ANTHROPIC_API_KEY: the run starts.
RunAgentIgnoresAnthropicKey ==
    /\ pc = "start"
    /\ ~hb_check
    /\ env.github_token /\ ~env.anthropic_key /\ env.url_ok
    /\ workspace' = "live"
    /\ events' = Append(events, Ev("AI Message", "Cloning"))
    /\ last_event_at' = now
    /\ Forward(Ev("AI Message", "Cloning"))
    /\ last_heartbeat' = now
    /\ suspended' = TRUE
    /\ hb_check' = TRUE
    /\ pc' = "clone"
    /\ UNCHANGED <<requests, disk, remote, test_results,
                   env, prompt, fs, git, changes, idx, pre, last_edit,
                   now, calls, outcomes, validation_results>>

\* run_agent: ANTHROPIC_API_KEY is not set.
RunAgentNoAnthropicKey ==
    /\ pc = "start"
    /\ ~hb_check
    /\ env.github_token /\ ~env.anthropic_key
    /\ Yield(Ev("error", "Anthropic API key not configured"))
    /\ pc' = "closed"
    /\ UNCHANGED <<requests, disk, remote, test_results,
                   env, prompt, workspace, fs, git, changes, idx, pre, last_edit,
                   now, calls, outcomes, validation_results>>

\* run_agent: the agent is constructed, process_repository is called and splits
\* repo_url; a URL without owner/name raises IndexError, which run_agent's
\* except block turns into an error event.
RunAgentBadUrl ==
    /\ pc = "start"
    /\ ~hb_check
    /\ env.github_token /\ env.anthropic_key /\ ~env.url_ok
    /\ Yield(Ev("error", "Agent failed"))
    /\ pc' = "closed"
    /\ UNCHANGED <<requests, disk, remote, test_results,
                   env, prompt, workspace, fs, git, changes, idx, pre, last_edit,
                   now, calls, outcomes, validation_results>>

\* process_repository up to its first yield: last_heartbeat is set, the
\* temporary directory is created, "Cloning ..." is yielded.
ProcessStart ==
    /\ pc = "start"
    /\ ~hb_check
    /\ env.github_token /\ env.anthropic_key /\ env.url_ok
    /\ workspace' = "live"
    /\ events' = Append(events, Ev("AI Message", "Cloning"))
    /\ last_event_at' = now
    /\ Forward(Ev("AI Message", "Cloning"))
    /\ last_heartbeat' = now
    /\ suspended' = TRUE
    /\ hb_check' = TRUE
    /\ pc' = "clone"
    /\ UNCHANGED <<requests, disk, remote, test_results,
                   env, prompt, fs, git, changes, idx, pre, last_edit,
                   now, calls, outcomes, validation_results>>

\* git.Repo.clone_from succeeds: the commit's files are in the workspace.
CloneOk ==
    /\ pc = "clone"
    /\ ~hb_check
    /\ \E repo \in Repos :
          /\ fs' = [n \in Locations |-> IF n \in InsideNames THEN repo[n] ELSE fs[n]]
          /\ git' = [NoGit EXCEPT !.head = repo]
    /\ pre' = fs'
    /\ suspended' = FALSE
    /\ hb_check' = TRUE
    /\ pc' = "cloned"
    /\ UNCHANGED <<requests, disk, remote, test_results,
                   env, prompt, workspace, changes, idx, last_edit, events,
                   last_event_at, frames,
                   now, last_heartbeat, calls, outcomes, validation_results>>

\* git.Repo.clone_from raises.
CloneFails ==
    /\ pc = "clone"
    /\ ~hb_check
    /\ OuterExcept
    /\ UNCHANGED <<requests, disk, remote, test_results,
                   env, prompt, workspace, fs, git, changes, idx, pre, last_edit,
                   now, calls, outcomes, validation_results>>

YieldCloned ==
    /\ pc = "cloned"
    /\ ~hb_check
    /\ YieldThenHeartbeat(Ev("AI Message", "Repository cloned successfully"))
    /\ pc' = "analyzing"
    /\ UNCHANGED <<requests, disk, remote, test_results,
                   env, prompt, workspace, fs, git, changes, idx, pre, last_edit,
                   now, calls, outcomes, validation_results>>

YieldAnalyzing ==
    /\ pc = "analyzing"
    /\ ~hb_check
    /\ YieldThenHeartbeat(Ev("AI Message", "Analyzing codebase structure"))
    /\ idx' = 0
    /\ pc' = "walk"
    /\ UNCHANGED <<requests, disk, remote, test_results,
                   env, prompt, workspace, fs, git, changes, pre, last_edit,
                   now, calls, outcomes, validation_results>>

\* The os.walk loop: one Tool: Read event per .py file.
WalkRead ==
    /\ pc = "walk"
    /\ ~hb_check
    /\ idx < Len(GetRepoStructure(fs))
    /\ YieldThenHeartbeat(Ev("Tool: Read", GetRepoStructure(fs)[idx + 1]))
    /\ idx' = idx + 1
    /\ UNCHANGED <<requests, disk, remote, test_results,
                   pc, env, prompt, workspace, fs, git, changes, pre, last_edit,
                   now, calls, outcomes, validation_results>>

WalkDone ==
    /\ pc = "walk"
    /\ ~hb_check
    /\ idx = Len(GetRepoStructure(fs))
    /\ YieldThenHeartbeat(Ev("AI Message", "Found Python files"))
    /\ pc' = "starting_ai"
    /\ UNCHANGED <<requests, disk, remote, test_results,
                   env, prompt, workspace, fs, git, changes, idx, pre, last_edit,
                   now, calls, outcomes, validation_results>>

YieldStartingAI ==
    /\ pc = "starting_ai"
    /\ ~hb_check
    /\ YieldThenHeartbeat(Ev("AI Message", "Starting AI analysis"))
    /\ pc' = "inner_try"
    /\ UNCHANGED <<requests, disk, remote, test_results,
                   env, prompt, workspace, fs, git, changes, idx, pre, last_edit,
                   now, calls, outcomes, validation_results>>

YieldAnalyzingWith ==
    /\ pc = "inner_try"
    /\ ~hb_check
    /\ Yield(Ev("AI Message", "Analyzing with Claude"))
    /\ pc' = "file_list"
    /\ UNCHANGED <<requests, disk, remote, test_results,
                   env, prompt, workspace, fs, git, changes, idx, pre, last_edit,
                   now, calls, outcomes, validation_results>>

YieldFoundFiles ==
    /\ pc = "file_list"
    /\ ~hb_check
    /\ Yield(Ev("AI Message", "Found files"))
    /\ idx' = 0
    /\ pc' = "read_files"
    /\ UNCHANGED <<requests, disk, remote, test_results,
                   env, prompt, workspace, fs, git, changes, pre, last_edit,
                   now, calls, outcomes, validation_results>>

\* The loop that reads every file of file_list into files_content.
ReadOne ==
    /\ pc = "read_files"
    /\ ~hb_check
    /\ idx < Len(GetRepoStructure(fs))
    /\ Yield(Ev("Tool: Read", GetRepoStructure(fs)[idx + 1]))
    /\ idx' = idx + 1
    /\ UNCHANGED <<requests, disk, remote, test_results,
                   pc, env, prompt, workspace, fs, git, changes, pre, last_edit,
                   now, calls, outcomes, validation_results>>

\* _simple_claude_analysis returns a plan with edits.
PlannerReturnsEdits ==
    /\ pc = "read_files"
    /\ ~hb_check
    /\ idx = Len(GetRepoStructure(fs))
    /\ changes' \in Plans
    /\ calls' = [calls EXCEPT !.planner = @ + 1]
    /\ pc' = "applying"
    /\ UNCHANGED <<requests, disk, remote, test_results,
                   env, prompt, workspace, fs, git, idx, pre, last_edit, events,
                   last_event_at, frames,
                   now, last_heartbeat, outcomes, validation_results, hb_check>>
    /\ suspended' = FALSE

\* _simple_claude_analysis returns no edits because the planner's answer has
\* none ({"edits": []}, or no "edits" key).
\* process_repository yields its message before it builds the fallback plan.
PlannerReturnsNothing ==
    /\ pc = "read_files"
    /\ ~hb_check
    /\ idx = Len(GetRepoStructure(fs))
    /\ changes' = <<>>
    /\ calls' = [calls EXCEPT !.planner = @ + 1]
    /\ Yield(Ev("AI Message", "Claude didn't provide changes"))
    /\ pc' = "fallback"
    /\ UNCHANGED <<requests, disk, remote, test_results,
                   env, prompt, workspace, fs, git, idx, pre, last_edit,
                   now, outcomes, validation_results>>

\* A planner failure that is not caught inside _simple_claude_analysis.
PlannerFailsRaises ==
    /\ pc = "read_files"
    /\ ~hb_check
    /\ idx = Len(GetRepoStructure(fs))
    /\ calls' = [calls EXCEPT !.planner = @ + 1, !.planner_errors = @ + 1]
    /\ InnerExcept
    /\ UNCHANGED <<requests, disk, remote, test_results,
                   env, prompt, workspace, fs, git, changes, idx, pre, last_edit,
                   now, outcomes, validation_results>>

\* _simple_claude_analysis: messages.create raises, the response has no
\* content, or json.loads cannot parse it (or parses it to something that is
\* not a dict); the except block returns {"edits": []} and process_repository
\* goes on as for a planner that returned no edits.
PlannerFails ==
    /\ pc = "read_files"
    /\ ~hb_check
    /\ idx = Len(GetRepoStructure(fs))
    /\ changes' = <<>>
    /\ calls' = [calls EXCEPT !.planner = @ + 1, !.planner_errors = @ + 1]
    /\ Yield(Ev("AI Message", "Claude didn't provide changes"))
    /\ pc' = "fallback"
    /\ UNCHANGED <<requests, disk, remote, test_results,
                   env, prompt, workspace, fs, git, idx, pre, last_edit,
                   now, outcomes, validation_results>>

\* fallback_edits is not empty: it becomes the plan.
FallbackPlan ==
    /\ pc = "fallback"
    /\ ~hb_check
    /\ CreateFallbackEdits(FilesContent(fs), prompt) # <<>>
    /\ changes' = CreateFallbackEdits(FilesContent(fs), prompt)
    /\ pc' = "applying"
    /\ UNCHANGED <<requests, disk, remote, test_results,
                   env, prompt, workspace, fs, git, idx, pre, last_edit, events,
                   last_event_at, frames,
                   now, last_heartbeat, calls, outcomes, validation_results, hb_check>>
    /\ suspended' = FALSE

\* fallback_edits is empty: one more AI Message, then "return".
FallbackEmpty ==
    /\ pc = "fallback"
    /\ ~hb_check
    /\ CreateFallbackEdits(FilesContent(fs), prompt) = <<>>
    /\ Yield(Ev("AI Message", "Unable to create fallback changes"))
    /\ pc' = "exit_with"
    /\ UNCHANGED <<requests, disk, remote, test_results,
                   env, prompt, workspace, fs, git, changes, idx, pre, last_edit,
                   now, calls, outcomes, validation_results>>

YieldApplying ==
    /\ pc = "applying"
    /\ ~hb_check
    /\ Yield(Ev("AI Message", "Applying changes"))
    /\ idx' = 0
    /\ pc' = "edit_loop"
    /\ UNCHANGED <<requests, disk, remote, test_results,
                   env, prompt, workspace, fs, git, changes, pre, last_edit,
                   now, calls, outcomes, validation_results>>

\* An edit loop whose event always names the file of the plan's first edit.
YieldToolEditOfFirst ==
    /\ pc = "edit_loop"
    /\ ~hb_check
    /\ idx < Len(changes)
    /\ changes[idx + 1].keys = {"file", "old_str", "new_str"}
    /\ Yield(Ev("Tool: Edit", changes[1].file))
    /\ pc' = "apply_edit"
    /\ UNCHANGED <<requests, disk, remote, test_results,
                   env, prompt, workspace, fs, git, changes, idx, pre, last_edit,
                   now, calls, outcomes, validation_results>>

\* The body of "for edit in changes['edits']" up to its yield: the previews
\* read edit["old_str"] and edit["new_str"], the event reads edit["file"].
YieldToolEdit ==
    /\ pc = "edit_loop"
    /\ ~hb_check
    /\ idx < Len(changes)
    /\ changes[idx + 1].keys = {"file", "old_str", "new_str"}
    /\ Yield(Ev("Tool: Edit", changes[idx + 1].file))
    /\ pc' = "apply_edit"
    /\ UNCHANGED <<requests, disk, remote, test_results,
                   env, prompt, workspace, fs, git, changes, idx, pre, last_edit,
                   now, calls, outcomes, validation_results>>

\* The same, for an edit that lacks a key: KeyError, caught by the inner try.
EditKeyError ==
    /\ pc = "edit_loop"
    /\ ~hb_check
    /\ idx < Len(changes)
    /\ changes[idx + 1].keys # {"file", "old_str", "new_str"}
    /\ InnerExcept
    /\ UNCHANGED <<requests, disk, remote, test_results,
                   env, prompt, workspace, fs, git, changes, idx, pre, last_edit,
                   now, calls, outcomes, validation_results>>

\* An _apply_single_edit that lets the error of a missing or unreadable file
\* out to its caller, where the inner try catches it.
ApplyEditPropagates ==
    /\ pc = "apply_edit"
    /\ ~hb_check
    /\ IF EditPath(fs, changes[idx + 1]) \in {"no_file", "undecodable"}
       THEN /\ InnerExcept
            /\ UNCHANGED <<fs, pre, last_edit, outcomes, idx>>
       ELSE /\ fs' = ApplySingleEdit(fs, changes[idx + 1])
            /\ pre' = fs
            /\ last_edit' = changes[idx + 1]
            /\ outcomes' = Append(outcomes, EditOutcome(fs, changes[idx + 1]))
            /\ idx' = idx + 1
            /\ pc' = "edit_loop"
            /\ suspended' = FALSE
            /\ UNCHANGED <<events, last_event_at, frames, last_heartbeat, hb_check>>
    /\ UNCHANGED <<requests, disk, remote, test_results,
                   env, prompt, workspace, git, changes,
                   now, calls, validation_results>>

\* self._apply_single_edit(temp_dir, edit), then the next iteration.
ApplyEdit ==
    /\ pc = "apply_edit"
    /\ ~hb_check
    /\ fs' = ApplySingleEdit(fs, changes[idx + 1])
    /\ pre' = fs
    /\ last_edit' = changes[idx + 1]
    /\ outcomes' = Append(outcomes, EditOutcome(fs, changes[idx + 1]))
    /\ idx' = idx + 1
    /\ pc' = "edit_loop"
    /\ UNCHANGED <<requests, disk, remote, test_results,
                   env, prompt, workspace, git, changes, events, last_event_at, frames,
                   now, last_heartbeat, calls, validation_results, hb_check>>
    /\ suspended' = FALSE

\* The loop is over: "Creating git commit...".
YieldCreatingCommit ==
    /\ pc = "edit_loop"
    /\ ~hb_check
    /\ idx = Len(changes)
    /\ YieldThenHeartbeat(Ev("AI Message", "Creating git commit"))
    /\ pc' = "checkout"
    /\ UNCHANGED <<requests, disk, remote, test_results,
                   env, prompt, workspace, fs, git, changes, idx, pre, last_edit,
                   now, calls, outcomes, validation_results>>

\* repo.git.checkout('-b', branch_name)
GitCheckout ==
    /\ pc = "checkout"
    /\ ~hb_check
    /\ YieldThenHeartbeat(Ev("Tool: Bash", "git checkout -b"))
    /\ pc' = "add"
    /\ UNCHANGED <<requests, disk, remote, test_results,
                   env, prompt, workspace, fs, git, changes, idx, pre, last_edit,
                   now, calls, outcomes, validation_results>>

\* repo.git.add(A=True)
GitAdd ==
    /\ pc = "add"
    /\ ~hb_check
    /\ YieldThenHeartbeat(Ev("Tool: Bash", "git add ."))
    /\ pc' = "commit"
    /\ UNCHANGED <<requests, disk, remote, test_results,
                   env, prompt, workspace, fs, git, changes, idx, pre, last_edit,
                   now, calls, outcomes, validation_results>>

\* repo.git.commit('-m', commit_msg): there is something to commit.
GitCommit ==
    /\ pc = "commit"
    /\ ~hb_check
    /\ Inside(fs) # git.head
    /\ git' = [git EXCEPT !.commit = Inside(fs), !.committed = TRUE]
    /\ YieldThenHeartbeat(Ev("Tool: Bash", "git commit -m"))
    /\ pc' = "push"
    /\ UNCHANGED <<requests, disk, remote, test_results,
                   env, prompt, workspace, fs, changes, idx, pre, last_edit,
                   now, calls, outcomes, validation_results>>

\* A git command of the branch/add/commit sequence exits non-zero (commit
\* does when the edits changed nothing): GitCommandError, caught by the
\* inner try.
GitCommandError ==
    /\ pc \in {"checkout", "add", "commit"}
    /\ ~hb_check
    /\ InnerExcept
    /\ UNCHANGED <<requests, disk, remote, test_results,
                   env, prompt, workspace, fs, git, changes, idx, pre, last_edit,
                   now, calls, outcomes, validation_results>>

\* repo.git.push('origin', branch_name) succeeds; the remote accepts a push
\* only from a token with write access.
GitPush ==
    /\ pc = "push"
    /\ ~hb_check
    /\ env.write_access
    /\ git' = [git EXCEPT !.pushed = TRUE]
    /\ YieldThenHeartbeat(Ev("Tool: Bash", "git push: pushed"))
    /\ pc' = "pr_message"
    /\ UNCHANGED <<requests, disk, remote, test_results,
                   env, prompt, workspace, fs, changes, idx, pre, last_edit,
                   now, calls, outcomes, validation_results>>

\* repo.git.push raises and nothing catches it before the inner except block.
GitPushFailsRaises ==
    /\ pc = "push"
    /\ ~hb_check
    /\ InnerExcept
    /\ UNCHANGED <<requests, disk, remote, test_results,
                   env, prompt, workspace, fs, git, changes, idx, pre, last_edit,
                   now, calls, outcomes, validation_results>>

\* repo.git.push raises: the except block yields the event with the error text.
GitPushFails ==
    /\ pc = "push"
    /\ ~hb_check
    /\ YieldThenHeartbeat(Ev("Tool: Bash", "git push: Push failed"))
    /\ pc' = "pr_message"
    /\ UNCHANGED <<requests, disk, remote, test_results,
                   env, prompt, workspace, fs, git, changes, idx, pre, last_edit,
                   now, calls, outcomes, validation_results>>

YieldCreatingPR ==
    /\ pc = "pr_message"
    /\ ~hb_check
    /\ YieldThenHeartbeat(Ev("AI Message", "Creating pull request"))
    /\ pc' = "create_pr"
    /\ UNCHANGED <<requests, disk, remote, test_results,
                   env, prompt, workspace, fs, git, changes, idx, pre, last_edit,
                   now, calls, outcomes, validation_results>>

\* _create_pull_request returns a URL; the hosting service accepts a pull
\* request only for a branch it has.
CreatePullRequest ==
    /\ pc = "create_pr"
    /\ ~hb_check
    /\ git.pushed
    /\ git' = [git EXCEPT !.pr = TRUE]
    /\ Yield(Ev("AI Message", "Pull request created"))
    /\ pc' = "complete"
    /\ UNCHANGED <<requests, disk, remote, test_results,
                   env, prompt, workspace, fs, changes, idx, pre, last_edit,
                   now, calls, outcomes, validation_results>>

\* _create_pull_request raises and nothing catches it before the inner except
\* block.
CreatePullRequestFailsRaises ==
    /\ pc = "create_pr"
    /\ ~hb_check
    /\ InnerExcept
    /\ UNCHANGED <<requests, disk, remote, test_results,
                   env, prompt, workspace, fs, git, changes, idx, pre, last_edit,
                   now, calls, outcomes, validation_results>>

\* _create_pull_request raises: a warning, then the branch message.
CreatePullRequestFails ==
    /\ pc = "create_pr"
    /\ ~hb_check
    /\ Yield(Ev("AI Message", "Warning: Failed to create pull request"))
    /\ pc' = "pr_failed"
    /\ UNCHANGED <<requests, disk, remote, test_results,
                   env, prompt, workspace, fs, git, changes, idx, pre, last_edit,
                   now, calls, outcomes, validation_results>>

YieldPushedToBranch ==
    /\ pc = "pr_failed"
    /\ ~hb_check
    /\ Yield(Ev("AI Message", "Changes were pushed to branch"))
    /\ pc' = "complete"
    /\ UNCHANGED <<requests, disk, remote, test_results,
                   env, prompt, workspace, fs, git, changes, idx, pre, last_edit,
                   now, calls, outcomes, validation_results>>

YieldComplete ==
    /\ pc = "complete"
    /\ ~hb_check
    /\ Yield(Ev("complete", IF git.pr THEN "pr_url" ELSE "None"))
    /\ pc' = "exit_with"
    /\ UNCHANGED <<requests, disk, remote, test_results,
                   env, prompt, workspace, fs, git, changes, idx, pre, last_edit,
                   now, calls, outcomes, validation_results>>

\* The with block ends: TemporaryDirectory removes the workspace, the
\* generator finishes, run_agent's loop ends and the stream is closed.
Cleanup ==
    /\ pc = "exit_with"
    /\ ~hb_check
    /\ workspace' = "deleted"
    /\ fs' = [n \in Locations |-> IF n \in InsideNames THEN NoFile ELSE fs[n]]
    /\ pc' = "closed"
    /\ UNCHANGED <<requests, disk, remote, test_results,
                   env, prompt, git, changes, idx, pre, last_edit, events,
                   last_event_at, frames,
                   now, last_heartbeat, calls, outcomes, validation_results, hb_check>>
    /\ suspended' = FALSE

\* The consumer stops reading while the generator is suspended at a yield and
\* the generator is closed: GeneratorExit is raised at the yield, no except
\* block catches it, and the with block removes the temporary directory.
ConsumerCloses ==
    /\ suspended
    /\ workspace = "live"
    /\ workspace' = "deleted"
    /\ fs' = [n \in Locations |-> IF n \in InsideNames THEN NoFile ELSE fs[n]]
    /\ pc' = "cancelled"
    /\ suspended' = FALSE
    /\ hb_check' = FALSE
    /\ UNCHANGED <<requests, disk, remote, test_results,
                   env, prompt, git, changes, idx, pre, last_edit, events,
                   last_event_at, frames,
                   now, last_heartbeat, calls, outcomes, validation_results>>

Next ==
    \/ Tick
    \/ HeartbeatCheck
    \/ EndpointYieldStarting
    \/ EndpointYieldTask
    \/ RunAgentNoGithubToken
    \/ RunAgentNoAnthropicKey
    \/ RunAgentBadUrl
    \/ ProcessStart
    \/ CloneOk
    \/ CloneFails
    \/ YieldCloned
    \/ YieldAnalyzing
    \/ WalkRead
    \/ WalkDone
    \/ YieldStartingAI
    \/ YieldAnalyzingWith
    \/ YieldFoundFiles
    \/ ReadOne
    \/ PlannerReturnsEdits
    \/ PlannerReturnsNothing
    \/ PlannerFails
    \/ FallbackPlan
    \/ FallbackEmpty
    \/ YieldApplying
    \/ YieldToolEdit
    \/ EditKeyError
    \/ ApplyEdit
    \/ YieldCreatingCommit
    \/ GitCheckout
    \/ GitAdd
    \/ GitCommit
    \/ GitCommandError
    \/ GitPush
    \/ GitPushFails
    \/ YieldCreatingPR
    \/ CreatePullRequest
    \/ CreatePullRequestFails
    \/ YieldPushedToBranch
    \/ YieldComplete
    \/ Cleanup
    \/ ConsumerCloses

Spec == Init /\ [][Next]_vars

(***************************************************************************)
(* SpecValidate: _run_code_validation on its own.  A workspace of files,    *)
(* given as paths (sequences of components), is validated, changed by       *)
(* _apply_code_changes, and validated again.  "LP" is an opening            *)
(* parenthesis that is never closed: a file that holds one does not compile.*)
(***************************************************************************)
MaxPasses == 2

\* os.walk order of the files of the harness workspace.
WalkOrder == << <<"a.py">>, <<"b.py">>, <<".git", "h.py">>, <<".github", "d.py">> >>

WalkNames == {WalkOrder[i] : i \in 1..Len(WalkOrder)}

RootNames == {p \in WalkNames : Len(p) = 1}

\* '.git' in root, '__pycache__' in root: substring tests on the directory path.
InRoot(word, dir) ==
    \/ word = ".git" /\ dir \in {".git", ".github"}
    \/ word = "__pycache__" /\ dir = "__pycache__"

\* file.endswith('.py')
EndsWithPy(file) == file \in {"a.py", "b.py", "h.py", "d.py"}

Skipped(path) ==
    \E i \in 1..(Len(path) - 1) :
        InRoot(".git", path[i]) \/ InRoot("__pycache__", path[i])

\* py_files: the list built by the os.walk loop.
PyFiles(files) ==
    SelectSeq(WalkOrder,
              LAMBDA p : files[p].exists /\ ~Skipped(p) /\ EndsWithPy(p[Len(p)]))

\* _validate_python_syntax: the file is read as UTF-8 text and compiled.
ValidatePythonSyntax(file) ==
    Decodable(file.bytes) /\ ~Contains(Decode(file.bytes), "LP")

\* What "python -m py_compile" may do on a file: exit 0, exit non-zero, run
\* into the 10 s timeout, or fail to start.
CompileOutcomes == {"ok", "nonzero", "timeout", "failed"}

\* A validation pass that starts from the results of the pass before it.
CarriedResults ==
    IF validation_results.ran THEN validation_results
    ELSE [ran |-> TRUE, success |-> TRUE,
          syntax_errors |-> <<>>, compilation_errors |-> <<>>]

\* validation_results = {"success": True, "syntax_errors": [], ...}
FreshResults ==
    [ran |-> TRUE, success |-> TRUE,
     syntax_errors |-> <<>>, compilation_errors |-> <<>>]

\* A compile check in which a timeout is not an error.
CompileErrorUnlessTimeout(outcome) == outcome \in {"nonzero", "failed"}

\* The py_compile step appends to compilation_errors when returncode != 0, on
\* subprocess.TimeoutExpired and on any other exception.
CompileError(outcome) == outcome # "ok"

\* The subprocess.run calls of one pass, in order: one for each file of
\* py_files that passed _validate_python_syntax (the others `continue`).
ExternalRuns(files, py_files, ext) ==
    LET checked == SelectSeq(py_files, LAMBDA p : ValidatePythonSyntax(files[p]))
    IN  [i \in 1..Len(checked) |-> [file |-> checked[i], outcome |-> ext[checked[i]]]]

\* The loop "for file_path in py_files" of _run_code_validation.
RECURSIVE ValidateFiles(_, _, _, _)
ValidateFiles(results, files, py_files, ext) ==
    IF py_files = <<>> THEN results
    ELSE LET relative_path == Head(py_files)
             checked ==
                 IF ~ValidatePythonSyntax(files[relative_path])
                 THEN [results EXCEPT !.syntax_errors = Append(@, relative_path),
                                      !.success = FALSE]
                 ELSE IF CompileError(ext[relative_path])
                 THEN [results EXCEPT
                          !.compilation_errors =
                              Append(@, [file |-> relative_path,
                                         error |-> ext[relative_path]]),
                          !.success = FALSE]
                 ELSE results
         IN  ValidateFiles(checked, files, Tail(py_files), ext)

RunCodeValidation(files, ext) ==
    ValidateFiles(FreshResults, files, PyFiles(files), ext)

ValidateContents == {NoFile, File(<<"a">>), File(<<"LP">>), File(<<"XX">>)}

InitValidate ==
    /\ pc = "validate_ready"
    /\ env = [github_token |-> TRUE, anthropic_key |-> TRUE, url_ok |-> TRUE,
              write_access |-> TRUE]
    /\ prompt = NoPrompt
    /\ workspace = "live"
    /\ fs \in [WalkNames -> ValidateContents]
    /\ \A p \in WalkNames \ RootNames : fs[p] \in {NoFile, File(<<"LP">>)}
    /\ git = NoGit
    /\ changes = <<>>
    /\ idx = 0
    /\ pre = fs
    /\ last_edit = NoEdit
    /\ events = <<>>
    /\ now = 0
    /\ last_heartbeat = 0
    /\ calls = Idle
    /\ outcomes = <<>>
    /\ validation_results = NotRun
    /\ hb_check = FALSE
    /\ suspended = FALSE
    /\ last_event_at = 0
    /\ frames = <<>>
    /\ requests = NoRequests
    /\ disk = NoDisk
    /\ remote = {}
    /\ test_results = NoResults

\* await self._run_code_validation(repo_path)
ValidationPass ==
    /\ pc = "validate_ready"
    /\ idx < MaxPasses
    /\ \E ext \in [RootNames -> CompileOutcomes] :
          /\ validation_results' = RunCodeValidation(fs, ext)
          /\ outcomes' = ExternalRuns(fs, PyFiles(fs), ext)
    /\ idx' = idx + 1
    /\ calls' = [calls EXCEPT !.validation = @ + 1]
    /\ pc' = "validated"
    /\ UNCHANGED <<requests, disk, remote, test_results,
                   env, prompt, workspace, fs, git, changes, pre, last_edit,
                   events, last_event_at, frames, now, last_heartbeat,
                   hb_check, suspended>>

\* _apply_code_changes with a plan of one change to a file of the root
\* directory: 'create' and 'modify' overwrite the file with the code,
\* 'delete' removes it if it exists.
ApplyCodeChange ==
    /\ pc = "validated"
    /\ pre' = fs
    /\ \E p \in RootNames, action \in {"create", "modify", "delete"},
          code \in {<<"a">>, <<"LP">>} :
          fs' = [fs EXCEPT ![p] = IF action = "delete" THEN NoFile ELSE File(code)]
    /\ pc' = "validate_ready"
    /\ UNCHANGED <<requests, disk, remote, test_results,
                   env, prompt, workspace, git, changes, idx, last_edit, events,
                   last_event_at, frames,
                   now, last_heartbeat, calls, outcomes, validation_results,
                   hb_check, suspended>>

NextValidate == ValidationPass \/ ApplyCodeChange

SpecValidate == InitValidate /\ [][NextValidate]_vars

(***************************************************************************)
(* SpecPreview: one iteration of the edit loop of process_repository up to  *)
(* its yield: the Tool: Edit event built from an edit.  "SP" is a space and *)
(* "TAB" a tab.                                                             *)
(***************************************************************************)
MaxPreview == 6

PreviewLimit == 100

Whitespace == {"SP", "TAB", "LF", "CR"}

\* str.strip(): leading and trailing whitespace removed.
RECURSIVE LStrip(_)
LStrip(s) == IF s # <<>> /\ s[1] \in Whitespace THEN LStrip(Tail(s)) ELSE s

RECURSIVE RStrip(_)
RStrip(s) ==
    IF s # <<>> /\ s[Len(s)] \in Whitespace THEN RStrip(SubSeq(s, 1, Len(s) - 1))
    ELSE s

Strip(s) == RStrip(LStrip(s))

\* s[:n]
Slice(s, n) == SubSeq(s, 1, IF Len(s) < n THEN Len(s) ELSE n)

\* str.replace(old, new) for a non-empty old: every occurrence, found from
\* left to right without overlap.
RECURSIVE ReplaceAll(_, _, _)
ReplaceAll(s, old, new) ==
    IF Len(s) < Len(old) THEN s
    ELSE IF SubSeq(s, 1, Len(old)) = old
         THEN new \o ReplaceAll(SubSeq(s, Len(old) + 1, Len(s)), old, new)
         ELSE <<s[1]>> \o ReplaceAll(Tail(s), old, new)

\* text.strip()[:100].replace('\n', ' ').replace('\t', ' ').replace('    ', ' ')
Preview(text) ==
    ReplaceAll(ReplaceAll(ReplaceAll(Slice(Strip(text), PreviewLimit),
                                     <<"LF">>, <<"SP">>),
                          <<"TAB">>, <<"SP">>),
               <<"SP", "SP", "SP", "SP">>, <<"SP">>)

\* The dict yielded for an edit.
ToolEditEvent(edit) ==
    [type |-> "Tool: Edit", filepath |-> edit.file,
     old_str |-> Preview(edit.old_str), new_str |-> Preview(edit.new_str)]

PreviewChars == {"a", "SP", "TAB", "LF", "CR"}

InitPreview ==
    /\ pc = "preview_ready"
    /\ env = [github_token |-> TRUE, anthropic_key |-> TRUE, url_ok |-> TRUE,
              write_access |-> TRUE]
    /\ prompt = NoPrompt
    /\ workspace = "live"
    /\ fs = HostFiles
    /\ git = NoGit
    /\ \E o \in SeqsUpTo(PreviewChars, MaxPreview),
          n \in {<<>>, <<"a", "LF", "TAB", "a">>} :
          changes = <<Edit("a.py", o, n)>>
    /\ idx = 0
    /\ pre = fs
    /\ last_edit = NoEdit
    /\ events = <<>>
    /\ now = 0
    /\ last_heartbeat = 0
    /\ calls = Idle
    /\ outcomes = <<>>
    /\ validation_results = NotRun
    /\ hb_check = FALSE
    /\ suspended = FALSE
    /\ last_event_at = 0
    /\ frames = <<>>
    /\ requests = NoRequests
    /\ disk = NoDisk
    /\ remote = {}
    /\ test_results = NoResults

\* old_clean, new_clean and the yield of the Tool: Edit event.
YieldEditPreview ==
    /\ pc = "preview_ready"
    /\ events' = Append(events, ToolEditEvent(changes[idx + 1]))
    /\ suspended' = TRUE
    /\ pc' = "preview_done"
    /\ UNCHANGED <<requests, disk, remote, test_results,
                   env, prompt, workspace, fs, git, changes, idx, pre, last_edit,
                   last_event_at, frames, now, last_heartbeat, calls, outcomes,
                   validation_results, hb_check>>

NextPreview == YieldEditPreview

SpecPreview == InitPreview /\ [][NextPreview]_vars

(***************************************************************************)
(* Two POST /code requests served at the same time.  Each request is        *)
(* create_code_changes followed by the steps of process_repository that     *)
(* touch what two runs could share: the temporary directory, the file in    *)
(* it, the branch name and the remote repository.  A directory of `disk`    *)
(* is [exists, bytes]: whether the directory exists and the text of its     *)
(* a.py.                                                                    *)
(***************************************************************************)
Requests == {1, 2}

\* main.py: repo_url = "https://github.com/arjun-ds/tiny-backspace"
HardcodedRepoUrl == "https://github.com/arjun-ds/tiny-backspace"

\* Values of the request's repoUrl field (HttpUrl: any well-formed URL).
RepoUrls == {HardcodedRepoUrl, "https://github.com/octocat/hello-world"}

\* Names tempfile.TemporaryDirectory() can pick.
DirNames == {"/tmp/tmp1", "/tmp/tmp2", "/tmp/tmp3"}

\* a.py at the head of each repository.
RepoText(url) == IF url = HardcodedRepoUrl THEN <<"a">> ELSE <<"b">>

NoRequest == [pc |-> "idle", repoUrl |-> "", repo_url |-> "", temp_dir |-> "",
              cloned_from |-> "", own |-> <<>>, branch_name |-> -1,
              pushed |-> FALSE]

\* os.path.join(repo_path, edit_info["file"]): "." stands for the relative
\* path a.py, a directory name for the absolute path of that directory's a.py,
\* which os.path.join returns as it is.
ResolveDir(repo_path, target) == IF target = "." THEN repo_path ELSE target

\* f'claude-improvements-{int(time.time())}': the name is the clock's second.
BranchName(time) == time

InitRequests ==
    /\ pc = "serving"
    /\ env = [github_token |-> TRUE, anthropic_key |-> TRUE, url_ok |-> TRUE,
              write_access |-> TRUE]
    /\ prompt = NoPrompt
    /\ workspace = "none"
    /\ fs = [n \in Locations |-> NoFile]
    /\ git = NoGit
    /\ changes = <<>>
    /\ idx = 0
    /\ pre = fs
    /\ last_edit = NoEdit
    /\ events = <<>>
    /\ now = 0
    /\ last_heartbeat = 0
    /\ calls = Idle
    /\ outcomes = <<>>
    /\ validation_results = NotRun
    /\ hb_check = FALSE
    /\ suspended = FALSE
    /\ last_event_at = 0
    /\ frames = <<>>
    /\ requests = [r \in Requests |-> NoRequest]
    /\ disk = [d \in DirNames |-> NoFile]
    /\ remote = {}
    /\ test_results = NoResults

\* A second passes while the requests are being served.
ClockTick ==
    /\ now < MaxTime
    /\ now' = now + 1
    /\ UNCHANGED <<test_results, pc, env, prompt, workspace, fs, git, changes, idx, pre,
                   last_edit, events, last_heartbeat, calls, outcomes,
                   validation_results, hb_check, suspended, last_event_at,
                   frames, requests, disk, remote>>

\* create_code_changes: the request carries repoUrl; repo_url is assigned the
\* fixed string and handed to run_agent.
PostCode(r) ==
    /\ requests[r].pc = "idle"
    /\ \E url \in RepoUrls :
          requests' = [requests EXCEPT ![r] =
                          [@ EXCEPT !.pc = "received", !.repoUrl = url,
                                    !.repo_url = HardcodedRepoUrl]]
    /\ UNCHANGED <<test_results, pc, env, prompt, workspace, fs, git, changes, idx, pre,
                   last_edit, events, now, last_heartbeat, calls, outcomes,
                   validation_results, hb_check, suspended, last_event_at,
                   frames, disk, remote>>

\* with tempfile.TemporaryDirectory() as temp_dir: a directory that did not
\* exist is created.
MakeTempDir(r) ==
    /\ requests[r].pc = "received"
    /\ \E d \in DirNames :
          /\ ~disk[d].exists
          /\ disk' = [disk EXCEPT ![d] = File(<<>>)]
          /\ requests' = [requests EXCEPT ![r] =
                             [@ EXCEPT !.pc = "tempdir", !.temp_dir = d]]
    /\ UNCHANGED <<test_results, pc, env, prompt, workspace, fs, git, changes, idx, pre,
                   last_edit, events, now, last_heartbeat, calls, outcomes,
                   validation_results, hb_check, suspended, last_event_at,
                   frames, remote>>

\* git.Repo.clone_from(auth_url, temp_dir), auth_url being repo_url with the
\* token in it.
CloneFrom(r) ==
    /\ requests[r].pc = "tempdir"
    /\ disk' = [disk EXCEPT ![requests[r].temp_dir] =
                   File(RepoText(requests[r].repo_url))]
    /\ requests' = [requests EXCEPT ![r] =
                       [@ EXCEPT !.pc = "cloned",
                                 !.cloned_from = requests[r].repo_url,
                                 !.own = RepoText(requests[r].repo_url)]]
    /\ UNCHANGED <<test_results, pc, env, prompt, workspace, fs, git, changes, idx, pre,
                   last_edit, events, now, last_heartbeat, calls, outcomes,
                   validation_results, hb_check, suspended, last_event_at,
                   frames, remote>>

\* self._apply_single_edit(temp_dir, edit) with old_str '' and new_str 'b'; the
\* open() of a directory that does not exist raises and is swallowed.
ApplyEditIn(r) ==
    /\ requests[r].pc = "cloned"
    /\ \E target \in {"."} \cup DirNames :
          LET d == ResolveDir(requests[r].temp_dir, target)
              new_content == ReplaceFirst(disk[d].bytes, <<>>, <<"b">>)
          IN  IF disk[d].exists
              THEN /\ disk' = [disk EXCEPT ![d] = File(new_content)]
                   /\ requests' = [requests EXCEPT ![r] =
                         [@ EXCEPT !.pc = "edited",
                                   !.own = IF d = requests[r].temp_dir
                                           THEN new_content ELSE @]]
              ELSE /\ disk' = disk
                   /\ requests' = [requests EXCEPT ![r].pc = "edited"]
    /\ UNCHANGED <<test_results, pc, env, prompt, workspace, fs, git, changes, idx, pre,
                   last_edit, events, now, last_heartbeat, calls, outcomes,
                   validation_results, hb_check, suspended, last_event_at,
                   frames, remote>>

\* branch_name = f'claude-improvements-{int(time.time())}' and
\* repo.git.checkout('-b', branch_name)
NameBranch(r) ==
    /\ requests[r].pc = "edited"
    /\ requests' = [requests EXCEPT ![r] =
                       [@ EXCEPT !.pc = "named", !.branch_name = BranchName(now)]]
    /\ UNCHANGED <<test_results, pc, env, prompt, workspace, fs, git, changes, idx, pre,
                   last_edit, events, now, last_heartbeat, calls, outcomes,
                   validation_results, hb_check, suspended, last_event_at,
                   frames, disk, remote>>

\* repo.git.push('origin', branch_name): the remote takes the branch unless it
\* already has a branch of that name with another commit; the rejection is
\* caught and reported in the event's output.
PushBranch(r) ==
    /\ requests[r].pc = "named"
    /\ LET taken == \E b \in remote : /\ b.repo = requests[r].cloned_from
                                      /\ b.branch = requests[r].branch_name
       IN  /\ remote' = IF taken THEN remote
                        ELSE remote \cup {[repo |-> requests[r].cloned_from,
                                           branch |-> requests[r].branch_name,
                                           by |-> r]}
           /\ requests' = [requests EXCEPT ![r] =
                              [@ EXCEPT !.pc = "pushed", !.pushed = ~taken]]
    /\ UNCHANGED <<test_results, pc, env, prompt, workspace, fs, git, changes, idx, pre,
                   last_edit, events, now, last_heartbeat, calls, outcomes,
                   validation_results, hb_check, suspended, last_event_at,
                   frames, disk>>

\* Leaving the with block: the temporary directory is removed.
CleanupDir(r) ==
    /\ requests[r].pc = "pushed"
    /\ disk' = [disk EXCEPT ![requests[r].temp_dir] = NoFile]
    /\ requests' = [requests EXCEPT ![r].pc = "done"]
    /\ UNCHANGED <<test_results, pc, env, prompt, workspace, fs, git, changes, idx, pre,
                   last_edit, events, now, last_heartbeat, calls, outcomes,
                   validation_results, hb_check, suspended, last_event_at,
                   frames, remote>>

NextRequests ==
    \/ ClockTick
    \/ \E r \in Requests : PostCode(r)
    \/ \E r \in Requests : MakeTempDir(r)
    \/ \E r \in Requests : CloneFrom(r)
    \/ \E r \in Requests : ApplyEditIn(r)
    \/ \E r \in Requests : NameBranch(r)
    \/ \E r \in Requests : PushBranch(r)
    \/ \E r \in Requests : CleanupDir(r)

SpecRequests == InitRequests /\ [][NextRequests]_vars

(***************************************************************************)
(* The test client: test_endpoint reading the stream of POST /code.  The    *)
(* stream is a sequence of lines, each of one kind; `frames` is the stream  *)
(* the server will deliver, `idx` how many lines response.iter_lines has    *)
(* handed over, `events` the lines handed over with the clock at that       *)
(* moment.  The clock counts from stream_start.                            *)
(***************************************************************************)
MaxLines == 3     \* longest stream the client is given

Timeout == 2      \* the timeout argument of test_endpoint, in clock ticks

\* Kinds of line: the event types the client tells apart, a data line that is
\* not JSON, and a line that does not start with "data: " (the empty line that
\* ends a frame).
LineKinds == {"complete", "error", "message", "invalid", "blank"}

Streams == SeqsUpTo(LineKinds, MaxLines)

IsData(line) == line # "blank"

\* results["events_received"] += 1 for a data line.
Counted(res, line) ==
    IF IsData(line) THEN [res EXCEPT !.events_received = @ + 1] ELSE res

Received(line) == Append(events, [kind |-> line, at |-> now])

InitClient ==
    /\ pc = "health"
    /\ env = [github_token |-> TRUE, anthropic_key |-> TRUE, url_ok |-> TRUE,
              write_access |-> TRUE]
    /\ prompt = NoPrompt
    /\ workspace = "none"
    /\ fs = [n \in Locations |-> NoFile]
    /\ git = NoGit
    /\ changes = <<>>
    /\ idx = 0
    /\ pre = fs
    /\ last_edit = NoEdit
    /\ events = <<>>
    /\ now = 0
    /\ last_heartbeat = 0
    /\ calls = Idle
    /\ outcomes = <<>>
    /\ validation_results = NotRun
    /\ hb_check = FALSE
    /\ suspended = FALSE
    /\ last_event_at = 0
    /\ frames \in Streams
    /\ requests = NoRequests
    /\ disk = NoDisk
    /\ remote = {}
    /\ test_results = NoResults

\* requests.get(f"{base_url}/") answers 200.
HealthOk ==
    /\ pc = "health"
    /\ test_results' = [test_results EXCEPT !.health_check = TRUE]
    /\ pc' = "post"
    /\ UNCHANGED <<env, prompt, workspace, fs, git, changes, idx, pre, last_edit,
                   events, now, last_heartbeat, calls, outcomes,
                   validation_results, hb_check, suspended, last_event_at,
                   frames, requests, disk, remote>>

\* The health check answers another status, or raises.
HealthFails ==
    /\ pc = "health"
    /\ test_results' = [test_results EXCEPT !.error = "Health check failed"]
    /\ pc' = "returned"
    /\ UNCHANGED <<env, prompt, workspace, fs, git, changes, idx, pre, last_edit,
                   events, now, last_heartbeat, calls, outcomes,
                   validation_results, hb_check, suspended, last_event_at,
                   frames, requests, disk, remote>>

\* requests.post(f"{base_url}/code", stream=True) answers 200.
PostOk ==
    /\ pc = "post"
    /\ test_results' = [test_results EXCEPT !.sse_connection = TRUE]
    /\ pc' = "stream"
    /\ UNCHANGED <<env, prompt, workspace, fs, git, changes, idx, pre, last_edit,
                   events, now, last_heartbeat, calls, outcomes,
                   validation_results, hb_check, suspended, last_event_at,
                   frames, requests, disk, remote>>

\* The POST answers another status, or raises.
PostFails ==
    /\ pc = "post"
    /\ test_results' = [test_results EXCEPT !.error = "HTTP error"]
    /\ pc' = "returned"
    /\ UNCHANGED <<env, prompt, workspace, fs, git, changes, idx, pre, last_edit,
                   events, now, last_heartbeat, calls, outcomes,
                   validation_results, hb_check, suspended, last_event_at,
                   frames, requests, disk, remote>>

\* Time passes while the client waits for the next line.
ClientTick ==
    /\ pc = "stream"
    /\ now < MaxTime
    /\ now' = now + 1
    /\ UNCHANGED <<pc, env, prompt, workspace, fs, git, changes, idx, pre,
                   last_edit, events, last_heartbeat, calls, outcomes,
                   validation_results, hb_check, suspended, last_event_at,
                   frames, requests, disk, remote, test_results>>

\* A line arrives when time.time() - stream_start > timeout: the client returns
\* without looking at it.
ReadLate ==
    /\ pc = "stream"
    /\ idx < Len(frames)
    /\ now > Timeout
    /\ events' = Received(frames[idx + 1])
    /\ idx' = idx + 1
    /\ test_results' = [test_results EXCEPT !.error = "Stream timeout"]
    /\ pc' = "returned"
    /\ UNCHANGED <<env, prompt, workspace, fs, git, changes, pre, last_edit,
                   now, last_heartbeat, calls, outcomes,
                   validation_results, hb_check, suspended, last_event_at,
                   frames, requests, disk, remote>>

\* A line in time that decides nothing: a line without the "data: " prefix, a
\* data line that json.loads rejects (the except block prints it), or an event
\* of a type other than error and complete.
ReadOther ==
    /\ pc = "stream"
    /\ idx < Len(frames)
    /\ now <= Timeout
    /\ frames[idx + 1] \in {"blank", "invalid", "message"}
    /\ events' = Received(frames[idx + 1])
    /\ idx' = idx + 1
    /\ test_results' = Counted(test_results, frames[idx + 1])
    /\ UNCHANGED <<pc, env, prompt, workspace, fs, git, changes, pre, last_edit,
                   now, last_heartbeat, calls, outcomes,
                   validation_results, hb_check, suspended, last_event_at,
                   frames, requests, disk, remote>>

\* An error event that is recorded without ending the loop.
ReadErrorGoesOn ==
    /\ pc = "stream"
    /\ idx < Len(frames)
    /\ now <= Timeout
    /\ frames[idx + 1] = "error"
    /\ events' = Received(frames[idx + 1])
    /\ idx' = idx + 1
    /\ test_results' = [Counted(test_results, frames[idx + 1])
                           EXCEPT !.error = "message"]
    /\ UNCHANGED <<pc, env, prompt, workspace, fs, git, changes, pre, last_edit,
                   now, last_heartbeat, calls, outcomes,
                   validation_results, hb_check, suspended, last_event_at,
                   frames, requests, disk, remote>>

\* event_type == "error": results["error"] = message; return results
ReadError ==
    /\ pc = "stream"
    /\ idx < Len(frames)
    /\ now <= Timeout
    /\ frames[idx + 1] = "error"
    /\ events' = Received(frames[idx + 1])
    /\ idx' = idx + 1
    /\ test_results' = [Counted(test_results, frames[idx + 1])
                           EXCEPT !.error = "message"]
    /\ pc' = "returned"
    /\ UNCHANGED <<env, prompt, workspace, fs, git, changes, pre, last_edit,
                   now, last_heartbeat, calls, outcomes,
                   validation_results, hb_check, suspended, last_event_at,
                   frames, requests, disk, remote>>

\* event_type == "complete": pr_url and success are set, _validate_pr_url
\* (which catches what it raises) is consulted, return results
ReadComplete ==
    /\ pc = "stream"
    /\ idx < Len(frames)
    /\ now <= Timeout
    /\ frames[idx + 1] = "complete"
    /\ events' = Received(frames[idx + 1])
    /\ idx' = idx + 1
    /\ test_results' = [Counted(test_results, frames[idx + 1])
                           EXCEPT !.success = TRUE, !.pr_url = "pr_url"]
    /\ pc' = "returned"
    /\ UNCHANGED <<env, prompt, workspace, fs, git, changes, pre, last_edit,
                   now, last_heartbeat, calls, outcomes,
                   validation_results, hb_check, suspended, last_event_at,
                   frames, requests, disk, remote>>

\* The server closes the stream: the loop over iter_lines ends.
StreamEnds ==
    /\ pc = "stream"
    /\ idx = Len(frames)
    /\ test_results' =
          IF test_results.events_received = 0
          THEN [test_results EXCEPT !.error = "No events received from stream"]
          ELSE test_results
    /\ pc' = "returned"
    /\ UNCHANGED <<env, prompt, workspace, fs, git, changes, idx, pre, last_edit,
                   events, now, last_heartbeat, calls, outcomes,
                   validation_results, hb_check, suspended, last_event_at,
                   frames, requests, disk, remote>>

\* The connection is lost, or no byte arrives for `timeout` seconds: iter_lines
\* raises and one of the outer except blocks sets results["error"].
StreamCut ==
    /\ pc = "stream"
    /\ test_results' = [test_results EXCEPT !.error = "Could not connect to endpoint"]
    /\ pc' = "returned"
    /\ UNCHANGED <<env, prompt, workspace, fs, git, changes, idx, pre, last_edit,
                   events, now, last_heartbeat, calls, outcomes,
                   validation_results, hb_check, suspended, last_event_at,
                   frames, requests, disk, remote>>

NextClient ==
    \/ HealthOk
    \/ HealthFails
    \/ PostOk
    \/ PostFails
    \/ ClientTick
    \/ ReadLate
    \/ ReadOther
    \/ ReadError
    \/ ReadComplete
    \/ StreamEnds
    \/ StreamCut

SpecClient == InitClient /\ [][NextClient]_vars

(***************************************************************************)
(* _cycle_errors_with_claude on its own: one call with an attempt number, a *)
(* workspace and the results of a validation pass over it.  `idx` is the    *)
(* attempt argument, `outcomes` the collaborators the call used, in order,  *)
(* `changes` the plan it returned.                                          *)
(***************************************************************************)
MaxAttempt == 5   \* largest attempt argument tried

\* if attempt > 3:  # Maximum 3 attempts
max_attempts == 3

\* A call that gives up one attempt early.
ExceedsMaxAttemptsFromLast(attempt) == attempt >= max_attempts

ExceedsMaxAttempts(attempt) == attempt > max_attempts

\* Plans _parse_claude_response can return for a fix request.
FixPlans == {<<>>, <<[file |-> <<"a.py">>, action |-> "modify", code |-> <<"a">>]>>}

InitCycle ==
    /\ pc = "cycle_ready"
    /\ env = [github_token |-> TRUE, anthropic_key |-> TRUE, url_ok |-> TRUE,
              write_access |-> TRUE]
    /\ prompt = NoPrompt
    /\ workspace = "live"
    /\ fs \in [WalkNames -> ValidateContents]
    /\ \A p \in WalkNames \ RootNames : fs[p] \in {NoFile, File(<<"LP">>)}
    /\ git = NoGit
    /\ changes = <<>>
    /\ idx \in 1..MaxAttempt
    /\ pre = fs
    /\ last_edit = NoEdit
    /\ events = <<>>
    /\ now = 0
    /\ last_heartbeat = 0
    /\ calls = Idle
    /\ outcomes = <<>>
    /\ \E ext \in [RootNames -> {"ok", "timeout"}] :
          validation_results = RunCodeValidation(fs, ext)
    /\ hb_check = FALSE
    /\ suspended = FALSE
    /\ last_event_at = 0
    /\ frames = <<>>
    /\ requests = NoRequests
    /\ disk = NoDisk
    /\ remote = {}
    /\ test_results = NoResults

\* attempt > 3: raise Exception("Maximum error cycling attempts reached")
CycleErrorsGivesUp ==
    /\ pc = "cycle_ready"
    /\ ExceedsMaxAttempts(idx)
    /\ pc' = "cycle_raised"
    /\ UNCHANGED <<env, prompt, workspace, fs, git, changes, idx, pre, last_edit,
                   events, now, last_heartbeat, calls, outcomes,
                   validation_results, hb_check, suspended, last_event_at,
                   frames, requests, disk, remote, test_results>>

\* The error report is built, _collect_codebase_files reads the workspace,
\* messages.create is called once and its answer is parsed and returned.
CycleErrorsReturnsPlan ==
    /\ pc = "cycle_ready"
    /\ ~ExceedsMaxAttempts(idx)
    /\ outcomes' = outcomes \o <<"_collect_codebase_files", "messages.create">>
    /\ calls' = [calls EXCEPT !.fix = @ + 1]
    /\ changes' \in FixPlans
    /\ pc' = "cycle_returned"
    /\ UNCHANGED <<env, prompt, workspace, fs, git, idx, pre, last_edit,
                   events, now, last_heartbeat,
                   validation_results, hb_check, suspended, last_event_at,
                   frames, requests, disk, remote, test_results>>

\* messages.create or _parse_claude_response raises: the except block raises
\* "Failed to get error fixes from Claude".
CycleErrorsPlannerFails ==
    /\ pc = "cycle_ready"
    /\ ~ExceedsMaxAttempts(idx)
    /\ outcomes' = outcomes \o <<"_collect_codebase_files", "messages.create">>
    /\ calls' = [calls EXCEPT !.fix = @ + 1, !.planner_errors = @ + 1]
    /\ pc' = "cycle_raised"
    /\ UNCHANGED <<env, prompt, workspace, fs, git, changes, idx, pre, last_edit,
                   events, now, last_heartbeat,
                   validation_results, hb_check, suspended, last_event_at,
                   frames, requests, disk, remote, test_results>>

NextCycle ==
    \/ CycleErrorsGivesUp
    \/ CycleErrorsReturnsPlan
    \/ CycleErrorsPlannerFails

SpecCycle == InitCycle /\ [][NextCycle]_vars

(***************************************************************************)
(* POST /api/code-debug: debug_stream around process_repository.  `events`  *)
(* is what process_repository yields in this run, `idx` how many of them    *)
(* debug_stream has forwarded, `frames` what debug_stream has sent.         *)
(***************************************************************************)
MaxRun == 2       \* most events of a run before its terminal event

\* What a run of process_repository yields: progress events, then an error or
\* a complete event, or nothing more (the return without an event when there
\* is no edit to apply).
Progress == {Ev("AI Message", "Cloning"), Ev("Tool: Read", "a.py")}

AgentRuns ==
    {p \o t : p \in SeqsUpTo(Progress, MaxRun),
              t \in {<<>>, << Ev("error", "Workflow failed") >>,
                     << Ev("complete", "Changes completed successfully") >>}}

\* event['debug_event_num'] = event_count; f"data: {json.dumps(event)}\n\n"
DebugSse(event, event_count) ==
    <<"data: ", JsonDumps(event) \o <<"debug_event_num", event_count>>, "\n\n">>

\* One "yield" of debug_stream at position `from`, going on at `to`.
DebugYield(from, to, event) ==
    /\ pc = from
    /\ frames' = Append(frames, Sse(event))
    /\ pc' = to
    /\ UNCHANGED <<env, prompt, workspace, fs, git, changes, pre, last_edit,
                   events, now, last_heartbeat, calls, outcomes,
                   validation_results, hb_check, suspended, last_event_at,
                   requests, disk, remote, test_results, idx>>

InitDebug ==
    /\ pc = "debug"
    /\ env \in {e \in Envs : e.url_ok /\ e.write_access}
    /\ prompt = NoPrompt
    /\ workspace = "none"
    /\ fs = [n \in Locations |-> NoFile]
    /\ git = NoGit
    /\ changes = <<>>
    /\ idx = 0
    /\ pre = fs
    /\ last_edit = NoEdit
    /\ events \in AgentRuns
    /\ now = 0
    /\ last_heartbeat = 0
    /\ calls = Idle
    /\ outcomes = <<>>
    /\ validation_results = NotRun
    /\ hb_check = FALSE
    /\ suspended = FALSE
    /\ last_event_at = 0
    /\ frames = <<>>
    /\ requests = NoRequests
    /\ disk = NoDisk
    /\ remote = {}
    /\ test_results = NoResults

DebugStarting ==
    DebugYield("debug", "debug_github", Ev("AI Message", "Starting debug process"))

DebugGithubToken ==
    DebugYield("debug_github", "debug_anthropic",
               Ev("AI Message", "GitHub token present"))

DebugAnthropicKey ==
    DebugYield("debug_anthropic", "debug_keys",
               Ev("AI Message", "Anthropic API key present"))

\* if not github_token or not anthropic_key: yield the error; return
DebugMissingKeys ==
    /\ ~(env.github_token /\ env.anthropic_key)
    /\ DebugYield("debug_keys", "debug_done",
                  Ev("error", "Missing required API keys"))

DebugLoading ==
    /\ env.github_token /\ env.anthropic_key
    /\ DebugYield("debug_keys", "debug_import",
                  Ev("AI Message", "Loading agent module"))

DebugLoaded ==
    DebugYield("debug_import", "debug_init",
               Ev("AI Message", "Agent module loaded successfully"))

\* from agent import CodingAgent raises.
DebugImportFails ==
    DebugYield("debug_import", "debug_done", Ev("error", "Failed to import agent"))

DebugInitialized ==
    DebugYield("debug_init", "debug_processing",
               Ev("AI Message", "Agent initialized successfully"))

\* CodingAgent(github_token) raises.
DebugInitFails ==
    DebugYield("debug_init", "debug_done", Ev("error", "Failed to initialize agent"))

DebugProcessing ==
    DebugYield("debug_processing", "debug_prompt",
               Ev("AI Message", "Processing repository"))

DebugPrompt ==
    DebugYield("debug_prompt", "debug_loop", Ev("AI Message", "Prompt"))

\* async for event in agent.process_repository(repo_url, prompt): the event
\* is numbered and sent.
DebugForward ==
    /\ pc = "debug_loop"
    /\ idx < Len(events)
    /\ idx' = idx + 1
    /\ frames' = Append(frames, DebugSse(events[idx + 1], idx + 1))
    /\ UNCHANGED <<pc, env, prompt, workspace, fs, git, changes, pre, last_edit,
                   events, now, last_heartbeat, calls, outcomes,
                   validation_results, hb_check, suspended, last_event_at,
                   requests, disk, remote, test_results>>

\* The loop is over: the count of events is sent.
DebugTotal ==
    /\ idx = Len(events)
    /\ DebugYield("debug_loop", "debug_done",
                  Ev("AI Message", "Total events processed"))

NextDebug ==
    \/ DebugStarting
    \/ DebugGithubToken
    \/ DebugAnthropicKey
    \/ DebugMissingKeys
    \/ DebugLoading
    \/ DebugLoaded
    \/ DebugImportFails
    \/ DebugInitialized
    \/ DebugInitFails
    \/ DebugProcessing
    \/ DebugPrompt
    \/ DebugForward
    \/ DebugTotal

SpecDebug == InitDebug /\ [][NextDebug]_vars

(***************************************************************************)
(* _create_fallback_edits on its own, followed by _apply_single_edit for    *)
(* each edit it built, as process_repository does when the planner returns  *)
(* no edits.  The workspace has up to four files; a.py takes every short    *)
(* content, the others are there or not.                                    *)
(***************************************************************************)
FallbackOrder == <<"a.py", "b.py", "c.py", "d.py">>

FallbackNames == {FallbackOrder[i] : i \in 1..Len(FallbackOrder)}

FallbackPrompts == [two_files : BOOLEAN, three_files : BOOLEAN,
                    function : BOOLEAN, class : BOOLEAN]

FallbackTexts == SeqsUpTo({"a", "b", "LF"}, MaxLen)

\* file_list and files_content of process_repository for the harness files.
FallbackFilesContent(files) ==
    LET file_list == SelectSeq(FallbackOrder, LAMBDA n : files[n].exists)
    IN  [i \in 1..Len(file_list) |->
            [name |-> file_list[i], content |-> ReadFile(files, file_list[i])]]

InitFallback ==
    /\ pc = "fallback_ready"
    /\ env = [github_token |-> TRUE, anthropic_key |-> TRUE, url_ok |-> TRUE,
              write_access |-> TRUE]
    /\ prompt \in FallbackPrompts
    /\ workspace = "live"
    /\ fs \in [FallbackNames -> {NoFile} \cup {File(t) : t \in FallbackTexts}]
    /\ \A n \in FallbackNames \ {"a.py"} : fs[n] \in {NoFile, File(<<"a">>)}
    /\ git = NoGit
    /\ changes = <<>>
    /\ idx = 0
    /\ pre = fs
    /\ last_edit = NoEdit
    /\ events = <<>>
    /\ now = 0
    /\ last_heartbeat = 0
    /\ calls = Idle
    /\ outcomes = <<>>
    /\ validation_results = NotRun
    /\ hb_check = FALSE
    /\ suspended = FALSE
    /\ last_event_at = 0
    /\ frames = <<>>
    /\ requests = NoRequests
    /\ disk = NoDisk
    /\ remote = {}
    /\ test_results = NoResults

\* fallback_edits = self._create_fallback_edits(files_content, prompt)
BuildFallbackEdits ==
    /\ pc = "fallback_ready"
    /\ changes' = CreateFallbackEdits(FallbackFilesContent(fs), prompt)
    /\ pc' = "fallback_built"
    /\ UNCHANGED <<env, prompt, workspace, fs, git, idx, pre, last_edit,
                   events, now, last_heartbeat, calls, outcomes,
                   validation_results, hb_check, suspended, last_event_at,
                   frames, requests, disk, remote, test_results>>

\* self._apply_single_edit(temp_dir, edit) for the next fallback edit.
ApplyFallbackEdit ==
    /\ pc = "fallback_built"
    /\ idx < Len(changes)
    /\ fs' = ApplySingleEdit(fs, changes[idx + 1])
    /\ last_edit' = changes[idx + 1]
    /\ outcomes' = Append(outcomes, EditOutcome(fs, changes[idx + 1]))
    /\ idx' = idx + 1
    /\ UNCHANGED <<pc, env, prompt, workspace, git, changes, pre,
                   events, now, last_heartbeat, calls,
                   validation_results, hb_check, suspended, last_event_at,
                   frames, requests, disk, remote, test_results>>

NextFallback == BuildFallbackEdits \/ ApplyFallbackEdit

SpecFallback == InitFallback /\ [][NextFallback]_vars

(***************************************************************************)
(* The claims.                                                              *)
(***************************************************************************)
TerminalEvents == {i \in 1..Len(events) : events[i].type \in Terminal}

WholeEdit(edit_info) == edit_info.keys = {"file", "old_str", "new_str"}

\* The files as they were before the run touched them.
Original(n) == IF n \in InsideNames THEN git.head[n] ELSE HostFiles[n]

\* C1: every run that has run to its end (the stream is closed) has emitted
\* exactly one event of type error or complete.
C1_ExactlyOneTerminal ==
    pc = "closed" => Cardinality(TerminalEvents) = 1

\* C2: an event of type error or complete is the last event of the stream:
\* no event of any type follows it, also once the workspace has been cleaned up.
C2_TerminalIsLast ==
    \A i \in 1..(Len(events) - 1) : events[i].type \notin Terminal

\* A run that emitted a heartbeat, ended with complete, and whose workspace
\* was cleaned up after the terminal event.
C2_Witness ==
    /\ pc = "closed"
    /\ workspace = "deleted"
    /\ Len(events) > 1
    /\ events[Len(events)].type = "complete"
    /\ \E i \in 1..Len(events) : events[i].type = "heartbeat"

\* C3: the publisher steps run only after a validation pass over the
\* workspace returned success: nothing is committed, pushed or proposed as a
\* pull request from a workspace that was not validated or failed validation.
C3_PublishOnlyAfterValidation ==
    (pc \in {"checkout", "add", "commit", "push"} \/ git.committed \/ git.pushed
        \/ git.pr)
    => (validation_results.ran /\ validation_results.success)

\* C4: an edit with non-empty old_str applied to a (readable) file of the
\* workspace whose content C contains old_str leaves prefix + new_str + suffix, where prefix is the
\* shortest prefix with C = prefix + old_str + suffix: the length is
\* len(C) - len(old_str) + len(new_str) and all other files are unchanged.
C4_FirstOccurrenceReplaced ==
    LET t == Join(last_edit.file)
        C == pre[t].bytes
        i == Find(C, last_edit.old_str)
    IN  (/\ pc = "edit_done"
         /\ WholeEdit(last_edit)
         /\ last_edit.old_str # <<>>
         /\ ~Escapes(last_edit.file)
         /\ pre[t].exists
         /\ Decodable(C)
         /\ Occurs(C, last_edit.old_str))
        => /\ fs[t] = File(SubSeq(C, 1, i - 1) \o last_edit.new_str
                           \o SubSeq(C, i + Len(last_edit.old_str), Len(C)))
           /\ Len(fs[t].bytes) = Len(C) - Len(last_edit.old_str)
                                 + Len(last_edit.new_str)
           /\ \A n \in Locations \ {t} : fs[n] = pre[n]

\* C5: an edit with old_str == "" applied to an existing file of the
\* workspace with content C leaves the file with content C + new_str.
C5_AppendToExistingFile ==
    LET t == Join(last_edit.file)
    IN  (/\ pc = "edit_done"
         /\ WholeEdit(last_edit)
         /\ last_edit.old_str = <<>>
         /\ ~Escapes(last_edit.file)
         /\ pre[t].exists)
        => fs[t] = File(pre[t].bytes \o last_edit.new_str)

\* C6: an edit with old_str == "" whose target file does not exist in the
\* workspace creates the file with content exactly new_str.
C6_CreateMissingFile ==
    LET t == Join(last_edit.file)
    IN  (/\ pc = "edit_done"
         /\ WholeEdit(last_edit)
         /\ last_edit.old_str = <<>>
         /\ ~Escapes(last_edit.file)
         /\ ~pre[t].exists)
        => fs[t] = File(last_edit.new_str)

\* C7: an edit whose non-empty old_str does not occur in the target file (a
\* file of the workspace) leaves that file byte for byte as it was, and every other file unchanged.
C7_NotFoundLeavesFilesUntouched ==
    LET t == Join(last_edit.file)
    IN  (/\ pc = "edit_done"
         /\ WholeEdit(last_edit)
         /\ last_edit.old_str # <<>>
         /\ ~Escapes(last_edit.file)
         /\ pre[t].exists
         /\ ~Occurs(pre[t].bytes, last_edit.old_str))
        => fs = pre

\* C8: once an edit's non-empty old_str was not found in its target file, no
\* later edit of the plan changes the workspace, and the run does not go on
\* to commit.
C8_PlanAbortedAtNotFound ==
    \A j \in 1..Len(outcomes) :
        outcomes[j].path = "not_found"
        => /\ \A k \in (j + 1)..Len(outcomes) : ~outcomes[k].changed
           /\ ~git.committed

\* C9: the edits of a plan are applied one at a time, in plan order, to the
\* same workspace, each to the content the earlier ones left: an edit whose
\* old_str is in its target file only because of an earlier edit of the plan
\* matches and is applied.
C9_LaterEditSeesEarlierEdits ==
    LET t == Join(last_edit.file)
    IN  (/\ pc = "edit_loop"
         /\ Len(outcomes) >= 2
         /\ WholeEdit(last_edit)
         /\ last_edit.old_str # <<>>
         /\ pre[t].exists
         /\ Occurs(pre[t].bytes, last_edit.old_str)
         /\ ~Occurs(Original(t).bytes, last_edit.old_str))
        => outcomes[Len(outcomes)].path = "replaced"

\* C10: an edit whose path escapes the workspace root ("..", or absolute) is
\* rejected: no file outside the workspace is created or modified.
C10_NothingOutsideWorkspaceChanges ==
    pc = "edit_done" => \A n \in OutsideNames : fs[n] = pre[n]

\* C11: applying the same edit (non-empty old_str, found in the file of the
\* workspace it names) a second time takes the not-found path and leaves the
\* content the first application produced unchanged; stated for the case the
\* claim gives as its reason, that after the first application old_str no
\* longer occurs in the file.
C11_SecondApplicationChangesNothing ==
    [][LET t == Join(last_edit.file)
       IN  (/\ pc = "edit_done" /\ pc' = "edit_again"
            /\ WholeEdit(last_edit)
            /\ last_edit.old_str # <<>>
            /\ ~Escapes(last_edit.file)
            /\ pre[t].exists
            /\ Occurs(pre[t].bytes, last_edit.old_str)
            /\ outcomes[1].path = "replaced"
            /\ ~Occurs(fs[t].bytes, last_edit.old_str))
           => /\ outcomes'[2].path = "not_found"
              /\ fs' = fs]_vars

\* The repository holds a .py file that is not valid UTF-8: compile() fails on
\* it in every validation pass, and no edit can repair it, since
\* _apply_single_edit cannot read it.
ValidatorAlwaysFails ==
    \E n \in InsideNames : git.head[n].exists /\ ~Decodable(git.head[n].bytes)

\* The run applied every edit of its plan without an exception.
PlanApplied == Len(changes) > 0 /\ Len(outcomes) = Len(changes)

\* C12: when every validation pass fails, a run that applied its plan ends
\* with an error after exactly 3 validation passes and at most 3 planning
\* calls (the first plan and at most 2 corrective plans).
C12_RetryExhaustion ==
    (pc = "closed" /\ PlanApplied /\ ValidatorAlwaysFails)
    => /\ events[Len(events)].type = "error"
       /\ calls.validation = 3
       /\ calls.planner + calls.fix <= 3

\* C13: a run that ends with complete made k validation passes, 1 <= k <= 3,
\* the last of them successful, and exactly k - 1 corrective planning calls.
C13_RetryConvergence ==
    (pc = "closed" /\ Len(events) > 0 /\ events[Len(events)].type = "complete")
    => /\ calls.validation \in 1..3
       /\ calls.fix = calls.validation - 1
       /\ validation_results.ran /\ validation_results.success

\* The set of elements of a list.
Elems(list) == {list[i] : i \in 1..Len(list)}

\* C14: after every validation pass, success is true iff syntax_errors and
\* compilation_errors are both empty; both lists are about the workspace as it
\* is in this pass and nothing else: syntax_errors names exactly the files
\* among those the walk collects (touched by a change or not) that do not
\* compile now, compilation_errors names only files that do, and no file is
\* listed twice.
C14_SuccessIffNoErrors ==
    pc = "validated"
    => LET r == validation_results
           compiled == {r.compilation_errors[i].file :
                            i \in 1..Len(r.compilation_errors)}
       IN  /\ r.success <=> (r.syntax_errors = <<>> /\ r.compilation_errors = <<>>)
           /\ Elems(r.syntax_errors) =
                  {p \in DOMAIN fs : fs[p].exists /\ p \in Elems(PyFiles(fs))
                                     /\ ~ValidatePythonSyntax(fs[p])}
           /\ compiled \subseteq {p \in DOMAIN fs : fs[p].exists
                                                    /\ ValidatePythonSyntax(fs[p])}
           /\ Len(r.syntax_errors) = Cardinality(Elems(r.syntax_errors))
           /\ Len(r.compilation_errors) = Cardinality(compiled)

\* A second pass over a workspace in which a file that failed the first pass
\* was repaired and an untouched file still fails.
C14_Witness ==
    /\ pc = "validated"
    /\ idx = 2
    /\ ~validation_results.success
    /\ ValidatePythonSyntax(fs[<<"a.py">>]) /\ ~ValidatePythonSyntax(pre[<<"a.py">>])
    /\ validation_results.syntax_errors = << <<"b.py">> >>
    /\ Len(validation_results.compilation_errors) = 1

\* C15: the temporary directory of a request does not outlive it: once the
\* generator has ended (normally, through an except block, through the early
\* return, or closed by the consumer at a yield) the directory it created is
\* deleted and holds no file.
C15_WorkspaceDeletedOnExit ==
    pc \in {"closed", "cancelled"}
    => /\ workspace # "live"
       /\ \A n \in InsideNames : ~fs[n].exists

\* A run that was closed by its consumer in the middle of the edit loop, with
\* an edit already written to the workspace.
C15_Witness ==
    /\ pc = "cancelled"
    /\ workspace = "deleted"
    /\ TerminalEvents = {}
    /\ Len(outcomes) > 0 /\ outcomes[1].changed
    /\ events[Len(events)].type = "Tool: Edit"

\* C16: at every heartbeat check of process_repository a heartbeat event is
\* emitted if and only if more than heartbeat_interval (2) seconds have passed
\* since the most recent event of any type was emitted.
C16_HeartbeatIffQuiet ==
    [][(hb_check /\ ~hb_check' /\ pc' = pc)
       => ((Len(events') = Len(events) + 1
            /\ events'[Len(events')].type = "heartbeat")
           <=> (now - last_event_at > heartbeat_interval))]_vars

\* The error events run_agent builds itself, which process_repository never
\* yields.
ByRunAgent(event) ==
    event.type = "error"
    /\ event.info \in {"GitHub token not configured",
                       "Anthropic API key not configured", "Agent failed"}

\* The events process_repository has yielded.
Yielded == SelectSeq(events, LAMBDA e : ~ByRunAgent(e))

InitialFrames == <<Sse(Ev("AI Message", "Starting agent for repository")),
                   Sse(Ev("AI Message", "Task"))>>

FramesOf(evs) == [i \in 1..Len(evs) |-> Sse(evs[i])]

\* C17 as stated: once run_agent has been started, the frames sent are the
\* two initial frames followed by exactly the events process_repository
\* yielded, one frame per event, in order.
C17_FramesAreYieldedEvents ==
    pc \notin {"request", "request_task"}
    => frames = InitialFrames \o FramesOf(Yielded)

\* C17 amended: the frames are the two initial frames, then one frame per
\* event process_repository yielded, in order, then at most one error frame
\* that run_agent built itself.
C17_FramesAreYieldedEventsThenOwnError ==
    pc \notin {"request", "request_task"}
    => /\ frames = InitialFrames \o FramesOf(events)
       /\ \A i \in 1..Len(events) : ByRunAgent(events[i]) => i = Len(events)

\* A stream that carried a heartbeat and an error event of process_repository.
C17_Witness ==
    /\ pc = "closed"
    /\ Len(frames) > 4
    /\ \E i \in 1..Len(events) : events[i].type = "heartbeat"
    /\ frames[Len(frames)] = Sse(Ev("error", "Workflow failed"))

\* C18: a run that committed its edits and ran to its end although the push
\* or the creation of the pull request failed ends with a complete event
\* without a PR URL (its message names the branch), and has no error event.
C18_PublishFailureEndsInComplete ==
    (pc = "closed" /\ git.committed /\ (~git.pushed \/ ~git.pr))
    => /\ events[Len(events)] = Ev("complete", "None")
       /\ \A i \in 1..Len(events) : events[i].type # "error"

\* A run that committed, whose push failed, and that ran to its end.
C18_Witness ==
    /\ pc = "closed"
    /\ git.committed /\ ~git.pushed
    /\ \E i \in 1..Len(events) : events[i] = Ev("Tool: Bash", "git push: Push failed")
    /\ events[Len(events)].type = "complete"

\* C19: whenever a run has emitted a complete event, its branch was pushed to
\* the remote in that run.
C19_CompleteImpliesPushed ==
    (\E i \in 1..Len(events) : events[i].type = "complete") => git.pushed

\* C20: when the token has no write permission on the repository, no
\* workspace is created, nothing is cloned, the planner is not called, no
\* edit is applied and no complete event is emitted; the run ends with an
\* error event.
C20_NoWriteAccessFailsEarly ==
    (env.github_token /\ env.anthropic_key /\ env.url_ok /\ ~env.write_access)
    => /\ workspace = "none"
       /\ git.head = NoGit.head
       /\ calls.planner = 0
       /\ outcomes = <<>>
       /\ \A i \in 1..Len(events) : events[i].type # "complete"
       /\ pc = "closed" => \E i \in 1..Len(events) : events[i].type = "error"

\* The outer except block of process_repository reported a failure; in a run
\* it is git.Repo.clone_from that raises there.
CloneFailed ==
    \E i \in 1..Len(events) : events[i] = Ev("error", "Error processing repository")

ToolEvents == {"Tool: Read", "Tool: Edit", "Tool: Bash"}

\* C21: when the clone fails the stream has exactly one error event, which is
\* its last event, and no Tool: Read, Tool: Edit or Tool: Bash event; the
\* planner is not called, and once the run has ended the workspace is gone.
C21_CloneFailureIsFatal ==
    CloneFailed
    => /\ Cardinality(TerminalEvents) = 1
       /\ events[Len(events)].type = "error"
       /\ \A i \in 1..Len(events) : events[i].type \notin ToolEvents
       /\ calls.planner = 0
       /\ git.head = NoGit.head /\ ~git.committed /\ ~git.pushed
       /\ pc \in {"closed", "cancelled"} => workspace = "deleted"

\* A run whose clone failed after a heartbeat and that ran to its end.
C21_Witness ==
    /\ pc = "closed"
    /\ CloneFailed
    /\ workspace = "deleted"
    /\ \E i \in 1..Len(events) : events[i].type = "heartbeat"

\* C22: a planner call that failed or whose response could not be parsed
\* yields no error event: the run reports that no changes were provided,
\* holds an empty plan, and goes on with the fallback plan built from the
\* files as cloned; an error event can come only later, from the git steps
\* that follow the application of that plan.
C22_PlannerFailureDegradesToFallback ==
    calls.planner_errors > 0
    => /\ \E i \in 1..Len(events) :
              events[i] = Ev("AI Message", "Claude didn't provide changes")
       /\ pc = "fallback" => (changes = <<>> /\ TerminalEvents = {})
       /\ pc \in {"applying", "edit_loop", "apply_edit"}
          => (/\ changes = CreateFallbackEdits(FilesContent(git.head), prompt)
              /\ changes # <<>>
              /\ TerminalEvents = {})
       /\ (\E i \in 1..Len(events) : events[i].type = "error") => PlanApplied

\* A run whose planner call failed and that committed the fallback plan.
C22_Witness ==
    /\ calls.planner_errors = 1
    /\ pc = "closed"
    /\ git.committed
    /\ events[Len(events)].type = "complete"

\* The Tool: Edit events of the stream, in order; the j-th one announces the
\* j-th edit of the plan.
EditEvents == SelectSeq(events, LAMBDA e : e.type = "Tool: Edit")

\* C23: every Tool: Edit event whose edit has been handed to
\* _apply_single_edit reports an edit that was applied: its old_str was found
\* in a file that could be read and written.
C23_EditEventOnlyIfApplied ==
    \A j \in 1..Len(EditEvents) :
        j <= Len(outcomes) => outcomes[j].path = "replaced"

\* A preview as the stream should carry it: at most 100 characters, no
\* newline or tab, no two whitespace characters in a row.
IsPreview(s) ==
    /\ Len(s) <= 100
    /\ \A i \in 1..Len(s) : s[i] \notin {"LF", "TAB"}
    /\ \A i \in 1..(Len(s) - 1) : ~(s[i] \in Whitespace /\ s[i + 1] \in Whitespace)

\* C24: in every Tool: Edit event old_str and new_str are previews: at most
\* 100 characters, on one line (no newline, no tab) and whitespace-collapsed
\* (no two consecutive whitespace characters).
C24_EditEventCarriesPreviews ==
    pc = "preview_done"
    => \A i \in 1..Len(events) :
           IsPreview(events[i].old_str) /\ IsPreview(events[i].new_str)

\* C25: applying an edit writes the file exactly once when the edit changes the
\* file, and does not write at all when the edit is a no-op: old_str is not in
\* the file, or the content after the replacement equals the content before.
NoOp(outcome) ==
    \/ outcome.path = "not_found"
    \/ outcome.path = "replaced" /\ ~outcome.changed

C25_OneWriteOnlyWhenChanged ==
    pc = "edit_done"
    => /\ outcomes[1].changed => outcomes[1].writes = 1
       /\ NoOp(outcomes[1]) => outcomes[1].writes = 0

\* C26: the workflow started by POST /code clones and publishes to the
\* repository named by the request's repoUrl field, for every valid repoUrl.
C26_WorkflowUsesRequestedRepository ==
    /\ \A r \in Requests :
          requests[r].cloned_from # ""
          => requests[r].cloned_from = requests[r].repoUrl
    /\ \A b \in remote : b.repo = requests[b.by].repoUrl

\* C27: two requests served at the same time are independent: their workspace
\* directories differ, the file in a request's workspace holds what that
\* request put there, and the two never use the same branch name.
InWorkspace(r) == requests[r].pc \in {"cloned", "edited", "named", "pushed"}

C27_RequestsAreIndependent ==
    \A r1, r2 \in Requests :
        r1 # r2
        => /\ (InWorkspace(r1) /\ InWorkspace(r2))
              => requests[r1].temp_dir # requests[r2].temp_dir
           /\ InWorkspace(r1)
              => disk[requests[r1].temp_dir].bytes = requests[r1].own
           /\ (requests[r1].branch_name # -1 /\ requests[r2].branch_name # -1)
              => requests[r1].branch_name # requests[r2].branch_name

\* C28: the test client reports success exactly when it received a complete
\* event in time (not after its timeout) and no error event before it; a
\* stream that ended or was cut with no terminal event received is reported
\* with success false.
CompleteFirst ==
    \E i \in 1..Len(events) :
        /\ events[i].kind = "complete"
        /\ events[i].at <= Timeout
        /\ \A j \in 1..(i - 1) : events[j].kind # "error"

NoTerminalReceived ==
    \A i \in 1..Len(events) : events[i].kind \notin {"complete", "error"}

C28_SuccessIffCompleteFirst ==
    pc = "returned"
    => /\ test_results.success <=> CompleteFirst
       /\ NoTerminalReceived => ~test_results.success

C28_Witness ==
    /\ pc = "returned"
    /\ test_results.success
    /\ Len(events) = 3
    /\ events[1].kind = "message"
    /\ now = Timeout

\* C29: each source-control step a run has performed (clone, configure the
\* commit identity, create the branch, stage all, commit, push) is surfaced as
\* a Tool: Bash event of its own carrying that step's command.
BashCommands ==
    {events[i].info : i \in {j \in 1..Len(events) : events[j].type = "Tool: Bash"}}

StepsBeforePush ==
    {"git clone", "git config", "git checkout -b", "git add .", "git commit -m"}

C29_EveryGitStepIsABashEvent ==
    /\ git.committed => StepsBeforePush \subseteq BashCommands
    /\ git.pushed => "git push: pushed" \in BashCommands

\* C30: in one validation pass every candidate file is classified exactly
\* once.  A file that fails the in-process compile() check is listed once in
\* syntax_errors and the external compiler is not run on it; a file that
\* passes is run through the external compiler once and is listed once in
\* compilation_errors iff that run exited non-zero, timed out or could not be
\* launched; no path is in both lists, and a timeout is always listed.
Count(list, x) == Cardinality({i \in 1..Len(list) : list[i] = x})

C30_EachFileClassifiedOnce ==
    pc = "validated"
    => LET r == validation_results
           compiled == [i \in 1..Len(r.compilation_errors) |->
                            r.compilation_errors[i].file]
           ran == [i \in 1..Len(outcomes) |-> outcomes[i].file]
       IN  /\ \A p \in Elems(PyFiles(fs)) :
                 IF ~ValidatePythonSyntax(fs[p])
                 THEN /\ Count(r.syntax_errors, p) = 1
                      /\ Count(ran, p) = 0
                      /\ Count(compiled, p) = 0
                 ELSE /\ Count(r.syntax_errors, p) = 0
                      /\ Count(ran, p) = 1
                      /\ Count(compiled, p) <= 1
           /\ \A i \in 1..Len(outcomes) :
                 Count(compiled, outcomes[i].file) = 1
                 <=> outcomes[i].outcome \in {"nonzero", "timeout", "failed"}
           /\ Elems(r.syntax_errors) \cap Elems(compiled) = {}
           /\ Elems(r.syntax_errors) \cup Elems(compiled) \subseteq Elems(PyFiles(fs))

\* A pass over two files: a.py does not compile in process, b.py does and its
\* external compilation times out.
C30_Witness ==
    /\ pc = "validated"
    /\ validation_results.syntax_errors = << <<"a.py">> >>
    /\ outcomes = << [file |-> <<"b.py">>, outcome |-> "timeout"] >>
    /\ validation_results.compilation_errors =
           << [file |-> <<"b.py">>, error |-> "timeout"] >>

\* C31: the files a validation pass examines are exactly the .py files of the
\* workspace that are not inside a directory named .git or __pycache__; a .py
\* file under any other directory is validated.
InsideMetadata(path) ==
    \E i \in 1..(Len(path) - 1) : path[i] \in {".git", "__pycache__"}

Candidates ==
    {p \in DOMAIN fs : fs[p].exists /\ EndsWithPy(p[Len(p)]) /\ ~InsideMetadata(p)}

Examined ==
    Elems(validation_results.syntax_errors)
    \cup {outcomes[i].file : i \in 1..Len(outcomes)}

C31_CandidatesAreAllOtherPyFiles ==
    pc = "validated" => Examined = Candidates

\* C32: _cycle_errors_with_claude called with attempt > 3 raises without
\* calling the planner and without reading or changing the workspace; called
\* with attempt in 1..3 it makes exactly one planner call and changes no file.
C32_AtMostThreeAttempts ==
    pc \in {"cycle_returned", "cycle_raised"}
    => IF idx > 3
       THEN pc = "cycle_raised" /\ outcomes = <<>> /\ calls.fix = 0 /\ fs = pre
       ELSE /\ Count(outcomes, "messages.create") = 1
            /\ calls.fix = 1
            /\ fs = pre

C32_Witness ==
    /\ pc = "cycle_returned"
    /\ idx = 3
    /\ ~validation_results.success
    /\ changes # <<>>

\* C33: after debug_stream has forwarded an error or complete event yielded
\* by process_repository, it sends no further frame.
Forwarded(frame) == Len(frame[2]) = 6

C33_DebugStreamEndsWithTerminal ==
    \A i \in 1..Len(frames) :
        (Forwarded(frames[i]) /\ frames[i][2][2] \in Terminal) => i = Len(frames)

\* C34: a run whose stream contains an error event has not executed git push:
\* nothing was pushed and there is no Tool: Bash event of the push step.
HasError == \E i \in 1..Len(events) : events[i].type = "error"

PushEvents == {Ev("Tool: Bash", "git push: pushed"),
               Ev("Tool: Bash", "git push: Push failed")}

C34_ErrorImpliesNeverPushed ==
    HasError => /\ ~git.pushed
                /\ \A i \in 1..Len(events) : events[i] \notin PushEvents

\* A run that applied an edit, created the branch, staged, and failed at the
\* commit.
C34_Witness ==
    /\ pc = "closed"
    /\ HasError
    /\ Ev("Tool: Bash", "git add .") \in Elems(events)
    /\ Ev("Tool: Bash", "git commit -m") \notin Elems(events)
    /\ Len(outcomes) > 0

\* C35: the events of a run are in causal order: the Tool: Edit events name
\* edits of the plan in plan order; every Tool: Edit event precedes every
\* Tool: Bash event; the Tool: Bash events are create-branch, stage-all,
\* commit, push in that order; a complete event comes only after the Tool:
\* Bash event of the push.
OfType(type) == SelectSeq(events, LAMBDA e : e.type = type)

IsPrefix(s, t) == Len(s) <= Len(t) /\ \A i \in 1..Len(s) : s[i] = t[i]

BashOrder(push) ==
    <<Ev("Tool: Bash", "git checkout -b"), Ev("Tool: Bash", "git add ."),
      Ev("Tool: Bash", "git commit -m"), push>>

InCausalOrder ==
    /\ IsPrefix([i \in 1..Len(OfType("Tool: Edit")) |-> OfType("Tool: Edit")[i].info],
                [i \in 1..Len(changes) |-> changes[i].file])
    /\ \A i, j \in 1..Len(events) :
          (events[i].type = "Tool: Edit" /\ events[j].type = "Tool: Bash") => i < j
    /\ \E push \in PushEvents : IsPrefix(OfType("Tool: Bash"), BashOrder(push))
    /\ \A k \in 1..Len(events) :
          events[k].type = "complete"
          => \E j \in 1..(k - 1) : events[j] \in PushEvents

\* C35 as stated: the events are in causal order and every run that reached
\* its end has one Tool: Edit event per edit of the plan.
C35_EventsInCausalOrder ==
    /\ InCausalOrder
    /\ pc = "closed" => Len(OfType("Tool: Edit")) = Len(changes)

\* C35 amended: the events are in causal order, with one Tool: Edit event per
\* edit of the plan the loop has reached, and one per edit of the plan in
\* every run that has begun the commit sequence.
C35_EventsInCausalOrderOfEditsReached ==
    /\ InCausalOrder
    /\ Len(OfType("Tool: Edit")) \in {idx, idx + 1} \/ pc \notin {"edit_loop", "apply_edit"}
    /\ OfType("Tool: Bash") # <<>> => Len(OfType("Tool: Edit")) = Len(changes)

\* A finished run with a plan of two edits to different files.
C35_Witness ==
    /\ pc = "closed"
    /\ events[Len(events)].type = "complete"
    /\ Len(OfType("Tool: Edit")) = 2
    /\ changes[1].file # changes[2].file
    /\ Len(OfType("Tool: Bash")) = 4

\* C36: on an empty plan _create_fallback_edits returns exactly min(k, n)
\* edits, n being the number of files read and k being 2 for a prompt that
\* mentions two files, 3 for one that mentions three files, 1 otherwise; the
\* edits are for the first min(k, n) files, one each, and there is none only
\* when n = 0.
FilesRead == SelectSeq(FallbackOrder, LAMBDA n : pre[n].exists)

Wanted == IF prompt.two_files THEN 2 ELSE IF prompt.three_files THEN 3 ELSE 1

C36_FallbackEditsForFirstFiles ==
    pc = "fallback_built"
    => /\ Len(changes) = IF Wanted < Len(FilesRead) THEN Wanted ELSE Len(FilesRead)
       /\ \A i \in 1..Len(changes) : changes[i].file = FilesRead[i]
       /\ changes = <<>> <=> Len(FilesRead) = 0

C36_Witness ==
    /\ pc = "fallback_built"
    /\ prompt.three_files /\ ~prompt.two_files
    /\ Len(FilesRead) = 4
    /\ Len(changes) = 3

\* C37: a fallback edit applied to the content it was built from inserts the
\* generated code at the end of the file or immediately before the file's last
\* line (the last line that is not empty, when the file ends with a line
\* break), never at the beginning of a file that is not empty, and keeps all
\* the original content in its order.
InsertedAt(before, after, at) ==
    LET added == Len(after) - Len(before)
    IN  /\ added > 0
        /\ SubSeq(after, 1, at) = SubSeq(before, 1, at)
        /\ SubSeq(after, at + added + 1, Len(after)) = SubSeq(before, at + 1, Len(before))
        /\ \E i \in (at + 1)..(at + added) : after[i] \in {"def", "class"}

LatePlaces(text) ==
    LET lines == SplitLines(text)
    IN  ({Len(text), Len(text) - Len(lines[Len(lines)]), Len(text) - Len(LastTwo(lines))}
         \ (IF text = <<>> THEN {} ELSE {0}))

C37_FallbackCodeGoesToTheEnd ==
    pc = "fallback_built"
    => \A i \in 1..idx :
          LET f == changes[i].file
          IN  \E at \in LatePlaces(Decode(pre[f].bytes)) :
                 InsertedAt(Decode(pre[f].bytes), Decode(fs[f].bytes), at)

\* C38: _apply_single_edit never propagates a file error.  When the target
\* file of an edit is missing or cannot be read, the call leaves the workspace
\* as it was, emits no event and returns to the edit loop, which goes on with
\* the next edit; a run that has announced the commit has put every edit of
\* the plan through _apply_single_edit, and a run never ends with an error
\* right after a file error unless the next edit of the plan is malformed.
FileError(outcome) == outcome.path \in {"no_file", "undecodable"}

FileErrorStep ==
    (/\ pc = "apply_edit"
     /\ pc' \notin {"apply_edit", "cancelled"}
     /\ FileError(EditOutcome(fs, changes[idx + 1])))
    => /\ fs' = fs
       /\ events' = events
       /\ pc' = "edit_loop"
       /\ idx' = idx + 1
       /\ outcomes' = Append(outcomes, EditOutcome(fs, changes[idx + 1]))

AfterFileError ==
    /\ (\E i \in 1..Len(events) : events[i] = Ev("AI Message", "Creating git commit"))
       => Len(outcomes) = Len(changes)
    /\ (/\ HasError
        /\ Len(outcomes) > 0
        /\ FileError(outcomes[Len(outcomes)])
        /\ Len(outcomes) < Len(changes))
       => ~WholeEdit(changes[Len(outcomes) + 1])

C38_FileErrorIsSwallowed == []AfterFileError /\ [][FileErrorStep]_vars

\* A plan whose first edit names a missing or unreadable file and whose second
\* edit changed the workspace, in a run that went on to commit and ended
\* without an error.
C38_Witness ==
    /\ Len(outcomes) = 2
    /\ FileError(outcomes[1])
    /\ outcomes[2].changed
    /\ git.committed
    /\ ~HasError
    /\ pc = "closed"

\* C39: when GITHUB_TOKEN or ANTHROPIC_API_KEY is not set, run_agent emits
\* exactly one frame, an error event, and nothing else: the run never gets
\* past run_agent's checks, so no workspace is created, nothing is cloned, the
\* planner is never called, no edit is applied and nothing is pushed.
KeyMissing == ~env.github_token \/ ~env.anthropic_key

C39_MissingKeyOneErrorFrame ==
    KeyMissing
    => /\ pc \in {"request", "request_task", "start", "closed"}
       /\ Len(events) <= 1
       /\ \A i \in 1..Len(events) : events[i].type = "error"
       /\ pc = "closed" => /\ Len(events) = 1
                           /\ frames = InitialFrames \o <<Sse(events[1])>>
       /\ workspace = "none"
       /\ fs = HostFiles
       /\ git = NoGit
       /\ calls = Idle
       /\ changes = <<>>
       /\ outcomes = <<>>

\* A finished run that had the GitHub token but not the Anthropic key.
C39_Witness ==
    /\ env.github_token
    /\ ~env.anthropic_key
    /\ pc = "closed"
    /\ events = <<Ev("error", "Anthropic API key not configured")>>

====
